---- MODULE Spec2Model ----
(***************************************************************************)
(* A model of the concurrent cache engine of moka (src/sync/base_cache.rs, *)
(* src/sync/invalidator.rs): the lock-free read and write paths, the       *)
(* deferred maintenance cycle (Inner::sync), size-aware admission and the  *)
(* expiration sweeper.                                                     *)
(*                                                                         *)
(* Granularity.  Every hash-map operation is one atomic step (the map is   *)
(* linearizable).  A write is two steps: the hash-map update               *)
(* (do_insert_with_hash / remove_entry) and, later, the sending of its     *)
(* WriteOp; the ops that are between the two are held in `inflight`.       *)
(* A maintenance cycle holds the deques mutex from sync_begin to sync_end  *)
(* and applies one WriteOp per step, so that reads and writes of other     *)
(* threads interleave with it.                                             *)
(***************************************************************************)
EXTENDS Integers, Sequences, FiniteSets, TLC

\* ------------------------------------------------------------------ bounds
NumKeys == 2
MaxValue == 2
MaxEntries == 3
MaxTime == 3
MaxInflight == 1
MaxFreq == 1
\* The channels hold 3072 ops in the program; the model's are small so that a
\* full read channel (a dropped ReadOp) is reached.
READ_LOG_SIZE == 1
WRITE_LOG_SIZE == 2

\* The sweeper's batch is 500 iterations in the program (Inner::sync); the
\* model's deques hold at most MaxEntries nodes.
EVICTION_BATCH_SIZE == 4

\* The invalidator's batch is 500 candidates in the program (Inner::sync): a
\* scan of the model takes the whole write-order deque.
INVALIDATION_BATCH_SIZE == 4

\* Predicate ids are u64 in the program and register_predicate gives up after
\* 10,000 used ids; the model's ids are the integers modulo NumIds.
NumIds == 4
MAX_RETRY == 2

\* Weights and sizes are u64 in the program; the model's have 5 bits, and
\* MaxWeight is its u64::MAX.
MaxWeight == 31

\* ------------------------------------------------------- program constants
MAX_CONSECUTIVE_RETRIES == 5

\* Option::None, and the u64::MAX sentinel of an unset timestamp.
None == 0 - 1

Keys == 1 .. NumKeys
Values == 1 .. MaxValue
EntryIds == 1 .. MaxEntries

VARIABLES
    cfg,            \* max_capacity, time_to_live, time_to_idle, weigher, invalidator_enabled,
                    \* and keys, entries, preds, ticks, writers: how many keys the
                    \* clients use, how many entries they build, how many predicates
                    \* they register at a time, the last value of the clock, and how
                    \* many threads write (each has at most one WriteOp to send)
    now,            \* the expiration clock
    cache,          \* Inner.cache: key -> entry id, 0 when absent
    ents,           \* the ValueEntries ever built, by id (= creation order)
    cells,          \* the shared atomics of an entry lineage: la, lm, adm
    deqs,           \* Inner.deques: window, probation, protected, write_order
    freq,           \* Inner.frequency_sketch, by hash
    read_op_ch,     \* the read channel
    write_op_ch,    \* the write channel
    inflight,       \* WriteOps whose hash-map update is done and that are not sent yet
    weighted_size,  \* Inner.weighted_size
    valid_after,    \* Inner.valid_after
    sync,           \* the maintenance worker: pc, ws (its WeightedSize), left, ts, and
                    \* history: last, the branch the WriteOp it applied last took;
                    \* clean, see sync_begin
    invalidator,    \* Inner.invalidator: predicates (id -> registered_at, None when
                    \* absent), is_empty, last_key, ctx (scan_context.predicates),
                    \* is_task_running, task, task_result, and history: res, id (the
                    \* result of the last invalidate_entries_if), targets, and
                    \* pending, the tasks submitted whose result is not collected,
                    \* is_done, the is_done of the result the cycle under way
                    \* has collected
    lastGet,        \* what the last step, when it was a get, read and returned
    hist,           \* history, by key: see NoHist
    insert_call,    \* a do_insert_with_hash whose closures are re-executed: op_cnt,
                    \* op1, op2, the returned op, and history: calls, last
    sync_call,      \* a sync whose passes are counted: calls, should_sync, the
                    \* lengths of the channels, the returned pace
    invalidate_all_now  \* by calling thread: the clock value an invalidate_all has
                    \* read and not stored yet, None when the thread is in no call

vars == << cfg, now, cache, ents, cells, deqs, freq, read_op_ch, write_op_ch,
           inflight, weighted_size, valid_after, sync, invalidator, lastGet, hist,
           insert_call, sync_call, invalidate_all_now >>

\* ----------------------------------------------------------------- helpers
Max(a, b) == IF a >= b THEN a ELSE b

RemoveNode(s, n) == SelectSeq(s, LAMBDA x : x # n)

InSeq(s, n) == \E i \in 1 .. Len(s) : s[i] = n

\* Deque::move_to_back: the node goes to the MRU end; the others keep their order.
MoveNodeToBack(s, n) == IF InSeq(s, n) THEN Append(RemoveNode(s, n), n) ELSE s

\* The hash of a key; distinct keys have distinct hashes in the model.
hash(k) == k

NoGet == [key |-> 0, res |-> 0, why |-> "none", now |-> 0, va |-> 0, la |-> None, lm |-> None]

\* The history kept for a key: born, the time its last insert completed (under
\* a time_to_live; unset while the insert is under way); hit, the time of the
\* last get that returned a value since that insert (under a time_to_idle);
\* wiped, whether invalidate_all was called after that insert had completed.
NoHist == [born |-> None, hit |-> None, wiped |-> FALSE]

\* Any step other than the end of a maintenance cycle leaves the "done" mark.
Quiet(s) ==
    IF s.pc = "done" THEN [s EXCEPT !.pc = "idle", !.last = "none", !.clean = FALSE] ELSE s

\* A write or an invalidate_all of a client, for the history of the cycle
Dirty(s) == [Quiet(s) EXCEPT !.clean = FALSE]

\* -------------------------------------------------------------- WeightedSize
\* WeightedSize::weigh
weigh(k, v) == IF cfg.weigher = "value" THEN v ELSE 1

\* The + of two u64 where overflow is not checked (a release build; a debug
\* build panics instead)
wrapping_add(a, b) == (a + b) % (MaxWeight + 1)

\* WeightedSize::saturating_add
saturating_add(size, w) == IF size + w > MaxWeight THEN MaxWeight ELSE size + w

\* WeightedSize::saturating_sub
saturating_sub(size, w) == Max(size - w, 0)

\* Inner::has_expiry
has_expiry == cfg.ttl # None \/ cfg.tti # None

\* Inner::is_write_order_queue_enabled
is_write_order_queue_enabled == cfg.ttl # None \/ cfg.inv

\* Inner::has_valid_after
has_valid_after == valid_after > 0

MutHasEnoughCapacity(candidate_weight, size) ==
    IF cfg.max_capacity # None THEN size <= cfg.max_capacity ELSE TRUE

\* Inner::has_enough_capacity
has_enough_capacity(candidate_weight, size) ==
    IF cfg.max_capacity # None
    THEN wrapping_add(size, candidate_weight) <= cfg.max_capacity ELSE TRUE

\* ------------------------------------------------------------- expiration
\* is_expired_entry_ao, on the last_accessed an entry or a deque node gives
is_expired_entry_ao(tti, va, la, t) ==
    /\ la # None
    /\ (la < va \/ (tti # None /\ la + tti <= t))

MutIsExpiredEntryWo(ttl, va, lm, t) ==
    /\ lm # None
    /\ (lm < va \/ (ttl # None /\ lm + ttl < t))

\* is_expired_entry_wo, on the last_modified an entry or a deque node gives
is_expired_entry_wo(ttl, va, lm, t) ==
    /\ lm # None
    /\ (lm < va \/ (ttl # None /\ lm + ttl <= t))

\* ValueEntry::last_accessed / last_modified: the shared cell of the entry
last_accessed(C, E, e) == C[E[e].cell].la
last_modified(C, E, e) == C[E[e].cell].lm
is_admitted(C, E, e) == C[E[e].cell].adm

\* ------------------------------------------------------------------ deques
\* Deques::move_to_back_ao: through the entry's access-order node pointer
move_to_back_ao(D, E, e) ==
    IF E[e].ao = 0 THEN D
    ELSE [D EXCEPT !.probation = MoveNodeToBack(@, E[e].ao)]

\* Deques::move_to_back_wo: through the entry's write-order node pointer
move_to_back_wo(D, E, e) ==
    IF E[e].wo = 0 THEN D
    ELSE [D EXCEPT !.write_order = MoveNodeToBack(@, E[e].wo)]

\* Deques::unlink_ao and Deques::unlink_wo
unlink_nodes(D, E, e) ==
    [D EXCEPT !.probation = IF E[e].ao = 0 THEN @ ELSE RemoveNode(@, E[e].ao),
              !.write_order = IF E[e].wo = 0 THEN @ ELSE RemoveNode(@, E[e].wo)]

\* ValueEntry::unset_q_nodes
unset_q_nodes(E, e) == [E EXCEPT ![e].ao = 0, ![e].wo = 0]

\* ------------------------------------------------------------ invalidator
PredIds == 0 .. NumIds - 1

\* The closure the clients register: it selects key 1.
PredicateFun(k, v) == k = 1

\* The u64::MAX and u64::MIN a PredicateImpl is built with as the oldest and
\* the newest timestamp it has checked; nothing sets them afterwards.
oldest == MaxTime + 1
newest == 0

\* No InvalidationTask; built and at are history: the entries built when the
\* candidates were taken, and the time then.
NoTask == [candidates |-> << >>, is_truncated |-> FALSE, built |-> 0, at |-> 0]

\* Option::None of Invalidator.task_result
NoResult == [some |-> FALSE, invalidated |-> << >>, is_truncated |-> FALSE,
             newest_timestamp |-> None]

\* Invalidator::new
NewInvalidator ==
    [predicates |-> [i \in PredIds |-> None], is_empty |-> TRUE, last_key |-> NumIds - 1,
     ctx |-> {}, is_task_running |-> FALSE, task |-> NoTask, task_result |-> NoResult,
     res |-> "none", id |-> None, targets |-> {}, pending |-> 0, is_done |-> FALSE]

\* The registered_at of the predicates of the registry
Registered(I) == { I.predicates[i] : i \in { j \in PredIds : I.predicates[j] # None } }

RECURSIVE register_loop(_, _, _)
\* The loop of Invalidator::register_predicate: fetch_add wraps around.
register_loop(I, registered_at, tries) ==
    IF ~(tries < MAX_RETRY)
    THEN [I EXCEPT !.res = "NoSpaceLeft", !.id = None]
    ELSE LET id == I.last_key
             I1 == [I EXCEPT !.last_key = (@ + 1) % NumIds]
         IN  IF I.predicates[id] # None
             THEN register_loop(I1, registered_at, tries + 1)
             ELSE [I1 EXCEPT !.predicates[id] = registered_at, !.is_empty = FALSE,
                             !.res = "Ok", !.id = id]

MutRegisterPredicate(I, registered_at) ==
    [I EXCEPT !.last_key = (@ + 1) % NumIds, !.predicates[I.last_key] = registered_at,
              !.is_empty = FALSE, !.res = "Ok", !.id = I.last_key]

\* Invalidator::register_predicate
register_predicate(I, registered_at) == register_loop(I, registered_at, 0)

\* Invalidator::remove_predicate
remove_predicate(I, id) ==
    LET preds == [I.predicates EXCEPT ![id] = None]
    IN  [I EXCEPT !.predicates = preds,
                  !.is_empty = IF \A i \in PredIds : preds[i] = None THEN TRUE ELSE @]

MutIsApplicable(registered_at, lm) == lm < oldest \/ lm > newest

\* PredicateImpl::is_applicable and PredicateImplLite::is_applicable, for a
\* predicate registered at registered_at
is_applicable(registered_at, lm) ==
    lm <= registered_at /\ (lm < oldest \/ lm > newest)

\* Invalidator::do_apply_predicates
do_apply_predicates(predicates, k, v, ts) ==
    \E registered_at \in predicates : is_applicable(registered_at, ts) /\ PredicateFun(k, v)

MutApplyPredicates(I, k, e) ==
    do_apply_predicates(Registered(I), k, ents[e].value, last_modified(cells, ents, e))

\* Invalidator::apply_predicates
apply_predicates(I, k, e) ==
    IF I.is_empty THEN FALSE
    ELSE IF last_modified(cells, ents, e) # None
    THEN do_apply_predicates(Registered(I), k, ents[e].value, last_modified(cells, ents, e))
    ELSE FALSE

\* Inner::is_invalidated_entry
is_invalidated_entry(k, e) ==
    IF cfg.inv THEN apply_predicates(invalidator, k, e) ELSE FALSE

\* ------------------------------------------------------------- client side
MutRecordReadOp(ch, op) == Append(ch, op)

\* BaseCache::record_read_op: the ReadOp is discarded when the channel is full.
record_read_op(ch, op) == IF Len(ch) < READ_LOG_SIZE THEN Append(ch, op) ELSE ch

\* BaseCache::get_with_hash
get_with_hash(k) ==
    LET e == cache[k]
        la == IF e = 0 THEN None ELSE last_accessed(cells, ents, e)
        lm == IF e = 0 THEN None ELSE last_modified(cells, ents, e)
        wo == e # 0 /\ is_expired_entry_wo(cfg.ttl, valid_after, lm, now)
        ao == e # 0 /\ is_expired_entry_ao(cfg.tti, valid_after, la, now)
        iv == e # 0 /\ is_invalidated_entry(k, e)
        found == e # 0 /\ ~wo /\ ~ao /\ ~iv
        op == IF found
              THEN [type |-> "Hit", hash |-> hash(k), entry |-> e, ts |-> now]
              ELSE [type |-> "Miss", hash |-> hash(k), entry |-> 0, ts |-> 0]
    IN  /\ read_op_ch' = record_read_op(read_op_ch, op)
        /\ lastGet' = [key |-> k, res |-> IF found THEN e ELSE 0,
                       why |-> IF e = 0 THEN "absent" ELSE IF wo THEN "wo"
                               ELSE IF ao THEN "ao" ELSE IF iv THEN "iv" ELSE "hit",
                       now |-> now, va |-> valid_after, la |-> la, lm |-> lm]
        /\ hist' = IF found /\ cfg.tti # None THEN [hist EXCEPT ![k].hit = now] ELSE hist
        /\ sync' = Quiet(sync)
        /\ UNCHANGED << invalidate_all_now, insert_call, sync_call,
                        cfg, invalidator, now, cache, ents, cells, deqs, freq, write_op_ch,
                        inflight, weighted_size, valid_after >>

\* ValueEntry::new (on_insert) and ValueEntry::new_with (on_modify): the entry
\* built for key k and value v when the map holds `old` under k (0: nothing).
\* upd is history: whether the entry updates an entry that was admitted then.
new_entry(k, v, old, id) ==
    [key |-> k, value |-> v,
     cell |-> IF old = 0 THEN id ELSE ents[old].cell,
     ao |-> IF old = 0 THEN 0 ELSE ents[old].ao,
     wo |-> IF old = 0 THEN 0 ELSE ents[old].wo,
     upd |-> old # 0 /\ is_admitted(cells, ents, old)]

\* SegmentedHashMap::insert_with_or_modify, as do_insert_with_hash uses it:
\* the new entry replaces what the map holds under the key.
MutInsertWithOrModify(k, old, id) == IF old = 0 THEN [cache EXCEPT ![k] = id] ELSE cache

insert_with_or_modify(k, old, id) == [cache EXCEPT ![k] = id]

\* BaseCache::do_insert_with_hash: the hash-map update of an insert.  An update
\* sets the lineage's timestamps to the sentinel and severs the old entry's node
\* pointers.  The WriteOp it returns is not sent yet.
do_insert_with_hash(k, v) ==
    LET old == cache[k]
        id == Len(ents) + 1
        c == IF old = 0 THEN id ELSE ents[old].cell
    IN  /\ Len(ents) < cfg.entries
        /\ Cardinality(inflight) < cfg.writers
        /\ cache' = insert_with_or_modify(k, old, id)
        /\ ents' = Append(IF old = 0 THEN ents ELSE unset_q_nodes(ents, old),
                          new_entry(k, v, old, id))
        /\ cells' = [cells EXCEPT ![c] = [la |-> None, lm |-> None,
                                          adm |-> IF old = 0 THEN FALSE ELSE @.adm]]
        /\ inflight' = inflight \cup {[type |-> "Upsert", entry |-> id]}
        /\ sync' = Dirty(sync)
        /\ lastGet' = NoGet
        /\ hist' = [hist EXCEPT ![k] = NoHist]
        /\ UNCHANGED << invalidate_all_now, insert_call, sync_call,
                        cfg, invalidator, now, deqs, freq, read_op_ch, write_op_ch,
                        weighted_size, valid_after >>

\* BaseCache::remove_entry: the hash-map removal of a remove.  Its
\* WriteOp::Remove is not sent yet.
remove_entry(k) ==
    /\ cache[k] # 0
    /\ Cardinality(inflight) < cfg.writers
    /\ cache' = [cache EXCEPT ![k] = 0]
    /\ inflight' = inflight \cup {[type |-> "Remove", entry |-> cache[k]]}
    /\ sync' = Dirty(sync)
    /\ lastGet' = NoGet
    /\ UNCHANGED << invalidate_all_now, insert_call, sync_call,
                    cfg, invalidator, now, ents, cells, deqs, freq, read_op_ch, write_op_ch,
                    weighted_size, valid_after, hist >>

\* The sending of a WriteOp (spec 4.2, step 4): the writer retries while the
\* channel is full; a write is never dropped.
schedule_write_op(op) ==
    /\ op \in inflight
    /\ Len(write_op_ch) < WRITE_LOG_SIZE
    /\ write_op_ch' = Append(write_op_ch, op)
    /\ inflight' = inflight \ {op}
    /\ hist' = IF op.type = "Upsert" /\ cfg.ttl # None
               THEN [hist EXCEPT ![ents[op.entry].key].born = now] ELSE hist
    /\ sync' = Quiet(sync)
    /\ lastGet' = NoGet
    /\ UNCHANGED << invalidate_all_now, insert_call, sync_call,
                    cfg, invalidator, now, cache, ents, cells, deqs, freq, read_op_ch,
                    weighted_size, valid_after >>

\* An insert has completed when its Upsert is sent.
Completed(e) == e \in 1 .. Len(ents) /\ [type |-> "Upsert", entry |-> e] \notin inflight

\* The threads that call invalidate_all concurrently
NumCallers == 2
NoCalls == [t \in 1 .. NumCallers |-> None]

\* BaseCache::invalidate_all of thread t, its first statement: the clock is read.
invalidate_all_sample(t) ==
    /\ invalidate_all_now[t] = None
    /\ invalidate_all_now' = [invalidate_all_now EXCEPT ![t] = now]
    /\ sync' = Quiet(sync)
    /\ lastGet' = NoGet
    /\ UNCHANGED << insert_call, sync_call, cfg, invalidator, now, cache, ents, cells, deqs,
                    freq, read_op_ch, write_op_ch, inflight, weighted_size, valid_after,
                    hist >>

\* BaseCache::invalidate_all of thread t, its second statement: set_valid_after
\* stores the value read.
invalidate_all_store(t) ==
    /\ invalidate_all_now[t] # None
    /\ valid_after' = invalidate_all_now[t]
    /\ invalidate_all_now' = [invalidate_all_now EXCEPT ![t] = None]
    /\ sync' = Dirty(sync)
    /\ lastGet' = NoGet
    /\ UNCHANGED << insert_call, sync_call, cfg, invalidator, now, cache, ents, cells, deqs,
                    freq, read_op_ch, write_op_ch, inflight, weighted_size, hist >>

\* BaseCache::invalidate_all, called by one thread at a time.  hist[k].wiped
\* records the keys whose current
\* entry was inserted by an insert that had completed when the call was made
\* (an entry the maintenance stamped at the very clock value of the call is
\* left out: the clock of the model is coarse).
invalidate_all ==
    /\ valid_after' = now
    /\ hist' = [k \in Keys |->
                  IF /\ cache[k] # 0
                     /\ Completed(cache[k])
                     /\ last_modified(cells, ents, cache[k]) = None
                          \/ last_modified(cells, ents, cache[k]) < now
                  THEN [hist[k] EXCEPT !.wiped = TRUE] ELSE hist[k]]
    /\ sync' = Dirty(sync)
    /\ lastGet' = NoGet
    /\ UNCHANGED << invalidate_all_now, insert_call, sync_call,
                    cfg, invalidator, now, cache, ents, cells, deqs, freq, read_op_ch,
                    write_op_ch, inflight, weighted_size >>

MutRegisterInvalidationPredicate(I, registered_at) == register_predicate(I, registered_at)

\* Inner::register_invalidation_predicate: the invalidator is there when
\* BaseCache::new was given invalidator_enabled.
register_invalidation_predicate(I, registered_at) ==
    IF cfg.inv THEN register_predicate(I, registered_at)
    ELSE [I EXCEPT !.res = "InvalidationClosuresDisabled", !.id = None]

\* The keys whose entry satisfies PredicateFun and was inserted by an insert
\* that has completed
Selected ==
    { k \in Keys : /\ cache[k] # 0
                   /\ Completed(cache[k])
                   /\ PredicateFun(k, ents[cache[k]].value) }

\* BaseCache::invalidate_entries_if, for the closure PredicateFun.  targets is
\* history: the entries of the map that satisfy the closure and whose insert
\* had completed when a registration succeeded.
invalidate_entries_if ==
    /\ Cardinality({ i \in PredIds : invalidator.predicates[i] # None }) < cfg.preds
    /\ LET I == register_invalidation_predicate(invalidator, now)
       IN  invalidator' =
             IF I.res = "Ok"
             THEN [I EXCEPT !.targets = @ \cup { cache[k] : k \in Selected }]
             ELSE I
    /\ sync' = Quiet(sync)
    /\ lastGet' = NoGet
    /\ UNCHANGED << invalidate_all_now, insert_call, sync_call,
                    cfg, now, cache, ents, cells, deqs, freq, read_op_ch, write_op_ch,
                    inflight, weighted_size, valid_after, hist >>

\* A call of Invalidator::remove_predicate
remove_predicate_call(id) ==
    /\ cfg.inv
    /\ invalidator.predicates[id] # None
    /\ invalidator' = [remove_predicate(invalidator, id) EXCEPT !.res = "none", !.id = None]
    /\ sync' = Quiet(sync)
    /\ lastGet' = NoGet
    /\ UNCHANGED << invalidate_all_now, insert_call, sync_call,
                    cfg, now, cache, ents, cells, deqs, freq, read_op_ch, write_op_ch,
                    inflight, weighted_size, valid_after, hist >>

\* Every key of the map holds an entry that an invalidate_all wiped, and no
\* write is under way.
AllWiped ==
    /\ valid_after > 0
    /\ inflight = {}
    /\ \A k \in Keys : cache[k] # 0 => hist[k].wiped

\* The clock advances.
Tick ==
    /\ now < cfg.ticks
    /\ now' = now + 1
    /\ sync' = Quiet(sync)
    /\ lastGet' = NoGet
    /\ UNCHANGED << invalidate_all_now, insert_call, sync_call,
                    cfg, invalidator, cache, ents, cells, deqs, freq, read_op_ch, write_op_ch,
                    inflight, weighted_size, valid_after, hist >>

\* ------------------------------------------------------------- maintenance
\* The part of the state a maintenance cycle works on; ws is its WeightedSize.
MState == [cache |-> cache, ents |-> ents, cells |-> cells, deqs |-> deqs,
           freq |-> freq, ws |-> sync.ws]

\* FrequencySketch::increment (a counter that saturates)
increment(F, h) == [F EXCEPT ![h] = IF @ < MaxFreq THEN @ + 1 ELSE @]

\* Inner::apply_reads, one ReadOp
apply_read(M, op) ==
    IF op.type = "Hit"
    THEN [M EXCEPT !.freq = increment(@, op.hash),
                   !.cells[M.ents[op.entry].cell].la = op.ts,
                   !.deqs = move_to_back_ao(@, M.ents, op.entry)]
    ELSE [M EXCEPT !.freq = increment(@, op.hash)]

RECURSIVE apply_reads(_, _)
\* Inner::apply_reads
apply_reads(M, ops) ==
    IF ops = << >> THEN M ELSE apply_reads(apply_read(M, Head(ops)), Tail(ops))

\* handle_admit pushing to CacheRegion::Window
MutHandleAdmitWindow(M, e, policy_weight) ==
    [M EXCEPT !.ws = saturating_add(@, policy_weight),
              !.deqs.window = Append(@, e),
              !.deqs.write_order = IF is_write_order_queue_enabled THEN Append(@, e) ELSE @,
              !.ents[e].ao = e,
              !.ents[e].wo = IF is_write_order_queue_enabled THEN e ELSE @,
              !.cells[M.ents[e].cell].adm = TRUE]

\* Inner::handle_admit
handle_admit(M, e, policy_weight) ==
    [M EXCEPT !.ws = saturating_add(@, policy_weight),
              !.deqs.probation = Append(@, e),
              !.deqs.write_order = IF is_write_order_queue_enabled THEN Append(@, e) ELSE @,
              !.ents[e].ao = e,
              !.ents[e].wo = IF is_write_order_queue_enabled THEN e ELSE @,
              !.cells[M.ents[e].cell].adm = TRUE]

\* Inner::handle_remove and Inner::handle_remove_with_deques
handle_remove(M, e) ==
    LET E == M.ents
        M1 == IF is_admitted(M.cells, E, e)
              THEN [M EXCEPT !.cells[E[e].cell].adm = FALSE,
                             !.ws = saturating_sub(@, weigh(E[e].key, E[e].value)),
                             !.deqs = unlink_nodes(@, E, e)]
              ELSE M
    IN  [M1 EXCEPT !.ents = unset_q_nodes(@, e)]

RECURSIVE admit_walk(_, _, _, _)
\* The loop of Inner::admit.  W: the victims' weight and frequency, the victim
\* nodes, the skipped nodes and the consecutive retries so far; i: the position
\* of next_victim in probation, from the LRU end.
admit_walk(M, candidate, i, W) ==
    IF ~(W.weight < candidate.weight) \/ candidate.freq < W.freq
       \/ i > Len(M.deqs.probation)
    THEN W
    ELSE LET victim == M.deqs.probation[i]
             k == M.ents[victim].key
             cur == M.cache[k]
         IN  IF cur # 0
             THEN admit_walk(M, candidate, i + 1,
                     [W EXCEPT !.weight = wrapping_add(@, weigh(k, M.ents[cur].value)),
                               !.freq = @ + M.freq[hash(k)],
                               !.victim_nodes = Append(@, victim),
                               !.retries = 0])
             ELSE IF W.retries + 1 > MAX_CONSECUTIVE_RETRIES
                  THEN [W EXCEPT !.skipped_nodes = Append(@, victim), !.retries = @ + 1]
                  ELSE admit_walk(M, candidate, i + 1,
                          [W EXCEPT !.skipped_nodes = Append(@, victim), !.retries = @ + 1])

MutAdmitted(candidate, W) ==
    W.weight >= candidate.weight /\ candidate.freq >= W.freq

\* The decision of Inner::admit
Admitted(candidate, W) ==
    W.weight >= candidate.weight /\ candidate.freq > W.freq

\* The state of the loop of Inner::admit before its first iteration
NoVictims == [weight |-> 0, freq |-> 0, victim_nodes |-> << >>,
              skipped_nodes |-> << >>, retries |-> 0]

MutAdmit(M, candidate) ==
    LET W == admit_walk(M, candidate, 2, NoVictims)
    IN  [admitted |-> Admitted(candidate, W), victim_nodes |-> W.victim_nodes,
         skipped_nodes |-> W.skipped_nodes]

\* Inner::admit: the victims gathered and the decision
admit(M, candidate) ==
    LET W == admit_walk(M, candidate, 1, NoVictims)
    IN  [admitted |-> Admitted(candidate, W), victim_nodes |-> W.victim_nodes,
         skipped_nodes |-> W.skipped_nodes]

RECURSIVE remove_victims(_, _, _)
\* handle_upsert's loop over the victim nodes: the entry the map holds under
\* the victim's key is removed; a victim the map no longer holds is skipped.
\* R: the maintenance state and the skipped nodes.
remove_victims(R, victim_nodes, i) ==
    IF i > Len(victim_nodes) THEN R
    ELSE LET victim == victim_nodes[i]
             k == R.M.ents[victim].key
             cur == R.M.cache[k]
         IN  IF cur # 0
             THEN remove_victims(
                     [R EXCEPT !.M = handle_remove([R.M EXCEPT !.cache[k] = 0], cur)],
                     victim_nodes, i + 1)
             ELSE remove_victims([R EXCEPT !.skipped = Append(@, victim)],
                                 victim_nodes, i + 1)

RECURSIVE move_skipped(_, _)
\* handle_upsert's last loop: the skipped nodes go to the MRU end of probation.
move_skipped(M, skipped) ==
    IF skipped = << >> THEN M
    ELSE move_skipped([M EXCEPT !.deqs.probation = MoveNodeToBack(@, Head(skipped))],
                      Tail(skipped))

\* The branch handle_upsert takes for entry e in maintenance state M.
upsert_branch(M, e) ==
    LET policy_weight == weigh(M.ents[e].key, M.ents[e].value)
    IN  IF is_admitted(M.cells, M.ents, e) THEN "update"
        ELSE IF has_enough_capacity(policy_weight, M.ws) THEN "room"
        ELSE IF cfg.max_capacity # None /\ policy_weight > cfg.max_capacity THEN "oversize"
        ELSE "admit"

\* Inner::handle_upsert
handle_upsert(M, e, timestamp) ==
    LET c == M.ents[e].cell
        k == M.ents[e].key
        M1 == [M EXCEPT !.cells[c].la = timestamp, !.cells[c].lm = timestamp]
        policy_weight == weigh(k, M.ents[e].value)
        branch == upsert_branch(M1, e)
    IN  CASE branch = "update" ->
                [M1 EXCEPT !.deqs = move_to_back_wo(move_to_back_ao(@, M1.ents, e), M1.ents, e)]
          [] branch = "room" -> handle_admit(M1, e, policy_weight)
          [] branch = "oversize" -> [M1 EXCEPT !.cache[k] = 0]
          [] OTHER ->
                LET candidate == [weight |-> policy_weight, freq |-> M1.freq[hash(k)]]
                    A == admit(M1, candidate)
                IN  IF A.admitted
                    THEN LET R == remove_victims([M |-> M1, skipped |-> A.skipped_nodes],
                                                 A.victim_nodes, 1)
                         IN  move_skipped(handle_admit(R.M, e, policy_weight), R.skipped)
                    ELSE move_skipped([M1 EXCEPT !.cache[k] = 0], A.skipped_nodes)

\* The branch a WriteOp takes in apply_writes: handle_upsert decides after it
\* has set the timestamps.
write_branch(M, op, timestamp) ==
    IF op.type = "Upsert" THEN upsert_branch(M, op.entry) ELSE "remove"

\* Inner::apply_writes, one WriteOp
apply_write(M, op, timestamp) ==
    IF op.type = "Upsert" THEN handle_upsert(M, op.entry, timestamp)
    ELSE handle_remove(M, op.entry)

\* ---------------------------------------------------------------- sweeper
RECURSIVE MutRemoveExpiredWo(_, _, _)
\* remove_expired_wo with a plain remove in place of remove_if
MutRemoveExpiredWo(M, n, t) ==
    IF n = 0 \/ M.deqs.write_order = << >> THEN M
    ELSE LET node == Head(M.deqs.write_order)
             k == M.ents[node].key
             cur == M.cache[k]
         IN  IF ~is_expired_entry_wo(cfg.ttl, valid_after,
                                     last_modified(M.cells, M.ents, node), t)
             THEN M
             ELSE IF cur # 0
             THEN MutRemoveExpiredWo(handle_remove([M EXCEPT !.cache[k] = 0], cur), n - 1, t)
             ELSE MutRemoveExpiredWo(
                     [M EXCEPT !.deqs.write_order = MoveNodeToBack(@, node)], n - 1, t)

RECURSIVE MutRemoveExpiredWoPop(_, _, _)
\* remove_expired_wo popping the front node whose key is absent from the map
MutRemoveExpiredWoPop(M, n, t) ==
    IF n = 0 \/ M.deqs.write_order = << >> THEN M
    ELSE LET node == Head(M.deqs.write_order)
             k == M.ents[node].key
             cur == M.cache[k]
         IN  IF ~is_expired_entry_wo(cfg.ttl, valid_after,
                                     last_modified(M.cells, M.ents, node), t)
             THEN M
             ELSE IF cur # 0 /\ is_expired_entry_wo(cfg.ttl, valid_after,
                                      last_modified(M.cells, M.ents, cur), t)
             THEN MutRemoveExpiredWoPop(handle_remove([M EXCEPT !.cache[k] = 0], cur),
                                        n - 1, t)
             ELSE IF cur # 0
             THEN IF last_modified(M.cells, M.ents, cur) = None
                  THEN MutRemoveExpiredWoPop(
                          [M EXCEPT !.deqs = move_to_back_wo(move_to_back_ao(@, M.ents, cur),
                                                             M.ents, cur)],
                          n - 1, t)
                  ELSE M
             ELSE MutRemoveExpiredWoPop(
                     [M EXCEPT !.deqs.write_order = Tail(@)], n - 1, t)

RECURSIVE remove_expired_wo(_, _, _)
\* Inner::remove_expired_wo: n iterations are left of the batch.
remove_expired_wo(M, n, t) ==
    IF n = 0 \/ M.deqs.write_order = << >> THEN M
    ELSE LET node == Head(M.deqs.write_order)
             k == M.ents[node].key
             cur == M.cache[k]
         IN  IF ~is_expired_entry_wo(cfg.ttl, valid_after,
                                     last_modified(M.cells, M.ents, node), t)
             THEN M
             ELSE IF cur # 0 /\ is_expired_entry_wo(cfg.ttl, valid_after,
                                      last_modified(M.cells, M.ents, cur), t)
             THEN remove_expired_wo(handle_remove([M EXCEPT !.cache[k] = 0], cur), n - 1, t)
             ELSE IF cur # 0
             THEN IF last_modified(M.cells, M.ents, cur) = None
                  THEN remove_expired_wo(
                          [M EXCEPT !.deqs = move_to_back_wo(move_to_back_ao(@, M.ents, cur),
                                                             M.ents, cur)],
                          n - 1, t)
                  ELSE M
             ELSE remove_expired_wo(
                     [M EXCEPT !.deqs.write_order = MoveNodeToBack(@, node)], n - 1, t)

RECURSIVE remove_expired_ao(_, _, _, _)
\* Inner::remove_expired_ao on the access-order deque deq_name
remove_expired_ao(M, deq_name, n, t) ==
    IF n = 0 \/ M.deqs[deq_name] = << >> THEN M
    ELSE LET node == Head(M.deqs[deq_name])
             k == M.ents[node].key
             cur == M.cache[k]
         IN  IF ~is_expired_entry_ao(cfg.tti, valid_after,
                                     last_accessed(M.cells, M.ents, node), t)
             THEN M
             ELSE IF cur # 0 /\ is_expired_entry_ao(cfg.tti, valid_after,
                                      last_accessed(M.cells, M.ents, cur), t)
             THEN remove_expired_ao(handle_remove([M EXCEPT !.cache[k] = 0], cur),
                                    deq_name, n - 1, t)
             ELSE IF cur # 0
             THEN IF last_accessed(M.cells, M.ents, cur) = None
                  THEN remove_expired_ao(
                          [M EXCEPT !.deqs = move_to_back_wo(move_to_back_ao(@, M.ents, cur),
                                                             M.ents, cur)],
                          deq_name, n - 1, t)
                  ELSE M
             ELSE remove_expired_ao(
                     [M EXCEPT !.deqs[deq_name] = MoveNodeToBack(@, node)],
                     deq_name, n - 1, t)

\* Inner::evict
evict(M, batch_size, t) ==
    LET M1 == IF is_write_order_queue_enabled
              THEN remove_expired_wo(M, batch_size, t) ELSE M
    IN  IF cfg.tti # None \/ has_valid_after
        THEN remove_expired_ao(
                 remove_expired_ao(
                     remove_expired_ao(M1, "window", batch_size, t),
                     "probation", batch_size, t),
                 "protected", batch_size, t)
        ELSE M1

\* ------------------------------------------------------ invalidation scan
RECURSIVE remove_invalidated(_, _)
\* Inner::process_invalidation_result: handle_remove on every invalidated entry
remove_invalidated(M, invalidated) ==
    IF invalidated = << >> THEN M
    ELSE remove_invalidated(handle_remove(M, Head(invalidated)), Tail(invalidated))

MutTaskResult(I) ==
    [I EXCEPT !.task_result = NoResult,
              !.pending = IF I.task_result.some THEN @ - 1 ELSE @,
              !.ctx = IF I.task_result.some /\ I.task_result.is_truncated
                      THEN { r \in @ : r > I.task_result.newest_timestamp } ELSE @,
              !.is_done = IF I.task_result.some THEN TRUE ELSE @]

\* Invalidator::task_result: the result is taken and the scan context is
\* narrowed (a truncated scan) or cleared.
task_result(I) ==
    LET R == I.task_result
        predicates == IF R.is_truncated
                      THEN IF R.newest_timestamp # None
                           THEN { r \in I.ctx : r >= R.newest_timestamp } ELSE I.ctx
                      ELSE {}
    IN  IF ~R.some THEN I
        ELSE [I EXCEPT !.task_result = NoResult,
                       !.pending = @ - 1,
                       !.ctx = predicates,
                       !.is_done = IF R.is_truncated THEN predicates = {} ELSE TRUE]

\* Invalidator::remove_predicates_registered_before (spec 4.6)
remove_predicates_registered_before(I, t) ==
    LET preds == [i \in PredIds |->
                    IF I.predicates[i] # None /\ I.predicates[i] < t
                    THEN None ELSE I.predicates[i]]
    IN  [I EXCEPT !.predicates = preds,
                  !.is_empty = IF \A i \in PredIds : preds[i] = None THEN TRUE ELSE @]

\* Invalidator::submit_task
submit_task(I, candidates, is_truncated) ==
    [I EXCEPT !.ctx = IF @ = {} THEN Registered(I) ELSE @,
              !.task = [candidates |-> candidates, is_truncated |-> is_truncated,
                        built |-> Len(ents), at |-> now],
              !.is_task_running = TRUE,
              !.pending = @ + 1]

\* The nodes of the write-order deque that have a timestamp, as KeyDateLites
KeyDateLites(M) ==
    LET S == SelectSeq(M.deqs.write_order,
                       LAMBDA n : last_modified(M.cells, M.ents, n) # None)
    IN  [i \in 1 .. Len(S) |-> [key |-> M.ents[S[i]].key,
                                timestamp |-> last_modified(M.cells, M.ents, S[i])]]

\* Inner::submit_invalidation_task
submit_invalidation_task(M, I, batch_size, t) ==
    IF M.deqs.write_order = << >> THEN remove_predicates_registered_before(I, t)
    ELSE LET all == KeyDateLites(M)
             len == IF Len(all) < batch_size THEN Len(all) ELSE batch_size
         IN  IF len > 0
             THEN submit_task(I, SubSeq(all, 1, len), len = batch_size /\ Len(all) > len)
             ELSE I

\* Inner::invalidate_entries: the deques and the WeightedSize after
\* process_invalidation_result, the invalidator after submit_invalidation_task
invalidate_entries(M, I, batch_size, t) ==
    LET M1 == remove_invalidated(M, I.task_result.invalidated)
    IN  [M |-> M1, I |-> submit_invalidation_task(M1, task_result(I), batch_size, t)]

MutApply(predicates, C, k, ts) ==
    /\ C[k] # 0
    /\ last_modified(cells, ents, C[k]) # None
    /\ do_apply_predicates(predicates, k, ents[C[k]].value, ts)

\* InvalidationTask::apply, and the condition of InvalidationTask::invalidate:
\* the map C holds an entry under k whose last-modified time is ts, and a
\* predicate applies to it.
apply(predicates, C, k, ts) ==
    /\ C[k] # 0
    /\ last_modified(cells, ents, C[k]) # None
    /\ last_modified(cells, ents, C[k]) = ts
    /\ do_apply_predicates(predicates, k, ents[C[k]].value, ts)

RECURSIVE do_execute(_, _, _)
\* InvalidationTask::do_execute (apply and invalidate on every candidate):
\* R holds the map, the invalidated entries and the newest timestamp so far.
do_execute(R, candidates, predicates) ==
    IF candidates = << >> THEN R
    ELSE LET k == Head(candidates).key
             ts == Head(candidates).timestamp
             e == R.cache[k]
             hit == apply(predicates, R.cache, k, ts)
         IN  do_execute([cache |-> IF hit THEN [R.cache EXCEPT ![k] = 0] ELSE R.cache,
                         invalidated |-> IF hit THEN Append(R.invalidated, e)
                                         ELSE R.invalidated,
                         newest_timestamp |-> ts],
                        Tail(candidates), predicates)

\* InvalidationTask::execute, on a thread of the pool
execute ==
    /\ cfg.inv
    /\ invalidator.is_task_running
    /\ LET R == do_execute([cache |-> cache, invalidated |-> << >>,
                            newest_timestamp |-> None],
                           invalidator.task.candidates, invalidator.ctx)
       IN  /\ cache' = R.cache
           /\ invalidator' = [invalidator EXCEPT
                                 !.task_result = [some |-> TRUE,
                                                  invalidated |-> R.invalidated,
                                                  is_truncated |-> invalidator.task.is_truncated,
                                                  newest_timestamp |-> R.newest_timestamp],
                                 !.task = NoTask,
                                 !.is_task_running = FALSE]
    /\ sync' = Quiet(sync)
    /\ lastGet' = NoGet
    /\ UNCHANGED << invalidate_all_now, insert_call, sync_call,
                    cfg, now, ents, cells, deqs, freq, read_op_ch, write_op_ch,
                    inflight, weighted_size, valid_after, hist >>

MutExecuteStore ==
    /\ cfg.inv
    /\ invalidator.is_task_running
    /\ invalidator.task # NoTask
    /\ cache' = do_execute([cache |-> cache, invalidated |-> << >>,
                            newest_timestamp |-> None],
                           invalidator.task.candidates, invalidator.ctx).cache
    /\ invalidator' = [invalidator EXCEPT !.task = NoTask, !.is_task_running = FALSE]
    /\ sync' = Quiet(sync)
    /\ lastGet' = NoGet
    /\ UNCHANGED << invalidate_all_now, insert_call, sync_call,
                    cfg, now, ents, cells, deqs, freq, read_op_ch, write_op_ch,
                    inflight, weighted_size, valid_after, hist >>

\* InvalidationTask::execute up to the store of its result: the task is
\* consumed, the running flag is still set.
execute_store ==
    /\ cfg.inv
    /\ invalidator.is_task_running
    /\ invalidator.task # NoTask
    /\ LET R == do_execute([cache |-> cache, invalidated |-> << >>,
                            newest_timestamp |-> None],
                           invalidator.task.candidates, invalidator.ctx)
       IN  /\ cache' = R.cache
           /\ invalidator' = [invalidator EXCEPT
                                 !.task_result = [some |-> TRUE,
                                                  invalidated |-> R.invalidated,
                                                  is_truncated |-> invalidator.task.is_truncated,
                                                  newest_timestamp |-> R.newest_timestamp],
                                 !.task = NoTask]
    /\ sync' = Quiet(sync)
    /\ lastGet' = NoGet
    /\ UNCHANGED << invalidate_all_now, insert_call, sync_call,
                    cfg, now, ents, cells, deqs, freq, read_op_ch, write_op_ch,
                    inflight, weighted_size, valid_after, hist >>

\* The last statement of InvalidationTask::execute: the running flag is cleared.
execute_clear ==
    /\ cfg.inv
    /\ invalidator.is_task_running
    /\ invalidator.task = NoTask
    /\ invalidator' = [invalidator EXCEPT !.is_task_running = FALSE]
    /\ cache' = cache
    /\ sync' = Quiet(sync)
    /\ lastGet' = NoGet
    /\ UNCHANGED << invalidate_all_now, insert_call, sync_call,
                    cfg, now, ents, cells, deqs, freq, read_op_ch, write_op_ch,
                    inflight, weighted_size, valid_after, hist >>

\* -------------------------------------------------------------- Inner::sync
Idle ==
    [pc |-> "idle", current_ws |-> 0, ws |-> 0, left |-> 0, ts |-> 0, last |-> "none",
     clean |-> FALSE]

\* Inner::sync entered without waiting for the deques mutex
MutSyncBegin ==
    /\ LET M == apply_reads([MState EXCEPT !.ws = weighted_size], read_op_ch)
       IN  /\ cells' = M.cells
           /\ deqs' = M.deqs
           /\ freq' = M.freq
    /\ read_op_ch' = << >>
    /\ sync' = [pc |-> "writes", current_ws |-> weighted_size, ws |-> weighted_size,
                left |-> Len(write_op_ch), ts |-> now, last |-> "none",
                clean |-> AllWiped]
    /\ lastGet' = NoGet
    /\ UNCHANGED << invalidate_all_now, insert_call, sync_call,
                    cfg, invalidator, now, cache, ents, write_op_ch, inflight, weighted_size,
                    valid_after, hist >>

\* Inner::sync, from taking the deques mutex to the start of apply_writes:
\* the read channel is drained, the write channel's length and the time of
\* apply_writes are taken.  The channels stay below their flush points, so
\* the cycle has one pass.  sync.current_ws is the weighted_size the cycle
\* read at its start, sync.ws the one it computes.  sync.clean records
\* that the cycle begins after an
\* invalidate_all which every insert so far had completed before; a later
\* insert, remove or invalidate_all clears it.
sync_begin ==
    /\ sync.pc \notin {"writes", "submit"}
    /\ LET M == apply_reads([MState EXCEPT !.ws = weighted_size], read_op_ch)
       IN  /\ cells' = M.cells
           /\ deqs' = M.deqs
           /\ freq' = M.freq
    /\ read_op_ch' = << >>
    /\ sync' = [pc |-> "writes", current_ws |-> weighted_size, ws |-> weighted_size,
                left |-> Len(write_op_ch), ts |-> now, last |-> "none",
                clean |-> AllWiped]
    /\ lastGet' = NoGet
    /\ UNCHANGED << invalidate_all_now, insert_call, sync_call,
                    cfg, invalidator, now, cache, ents, write_op_ch, inflight, weighted_size,
                    valid_after, hist >>

\* Inner::apply_writes, one iteration of its loop
sync_apply_write ==
    /\ sync.pc = "writes"
    /\ sync.left > 0
    /\ LET M == apply_write(MState, Head(write_op_ch), sync.ts)
       IN  /\ cache' = M.cache
           /\ ents' = M.ents
           /\ cells' = M.cells
           /\ deqs' = M.deqs
           /\ sync' = [sync EXCEPT !.ws = M.ws, !.left = @ - 1,
                                   !.last = write_branch(MState, Head(write_op_ch), sync.ts)]
    /\ write_op_ch' = Tail(write_op_ch)
    /\ lastGet' = NoGet
    /\ UNCHANGED << invalidate_all_now, insert_call, sync_call,
                    cfg, invalidator, now, freq, read_op_ch, inflight, weighted_size,
                    valid_after, hist >>

\* Inner::sync, from the sweep to the end: the expired entries are evicted,
\* the result of the invalidation task is processed and the next task is
\* submitted, and weighted_size is published.
sync_end ==
    /\ sync.pc = "writes"
    /\ sync.left = 0
    /\ LET M1 == IF has_expiry \/ has_valid_after
                 THEN evict(MState, EVICTION_BATCH_SIZE, now) ELSE MState
           R == IF cfg.inv /\ ~invalidator.is_empty /\ ~invalidator.is_task_running
                THEN invalidate_entries(M1, invalidator, INVALIDATION_BATCH_SIZE, now)
                ELSE [M |-> M1, I |-> invalidator]
           M == R.M
       IN  /\ cache' = M.cache
           /\ ents' = M.ents
           /\ cells' = M.cells
           /\ deqs' = M.deqs
           /\ weighted_size' = M.ws
           /\ invalidator' = [R.I EXCEPT !.is_done = FALSE]
    /\ sync' = [Idle EXCEPT !.pc = "done", !.last = sync.last, !.clean = sync.clean]
    /\ lastGet' = NoGet
    /\ UNCHANGED << invalidate_all_now, insert_call, sync_call, cfg, now, freq, read_op_ch,
                    write_op_ch, inflight,
                    valid_after, hist >>

\* ------------------------------- do_insert_with_hash under contention
\* The width of the serial counter of the closures (AtomicU8)
U8 == 256

\* The closure executions one call can see
MaxCalls == 257

\* An op slot (op1, op2): the serial number stashed with the WriteOp, and
\* history: the closure execution that built the op, 0 when the slot is empty.
NoOp == [cnt |-> None, call |-> 0]

NoInsertCall ==
    [pc |-> "idle", op_cnt |-> 0, op1 |-> NoOp, op2 |-> NoOp, calls |-> 0,
     last |-> "none", ret |-> NoOp, kind |-> "none", unset |-> FALSE]

\* The locals of do_insert_with_hash before insert_with_or_modify
insert_call_begin ==
    /\ insert_call.pc \in {"idle", "done"}
    /\ insert_call' = [NoInsertCall EXCEPT !.pc = "cas"]
    /\ UNCHANGED << invalidate_all_now, sync_call, cfg, now, cache, ents, cells, deqs, freq,
                    read_op_ch,
                    write_op_ch, inflight, weighted_size, valid_after, sync,
                    invalidator, lastGet, hist >>

\* One attempt of insert_with_or_modify that finds the key absent: the
\* on_insert closure takes the next serial number and stashes its op in op1.
on_insert ==
    /\ insert_call.pc = "cas"
    /\ insert_call.calls < MaxCalls
    /\ insert_call' = [insert_call EXCEPT
                          !.op_cnt = (@ + 1) % U8,
                          !.op1 = [cnt |-> insert_call.op_cnt,
                                   call |-> insert_call.calls + 1],
                          !.calls = @ + 1,
                          !.last = "insert"]
    /\ UNCHANGED << invalidate_all_now, sync_call, cfg, now, cache, ents, cells, deqs, freq,
                    read_op_ch,
                    write_op_ch, inflight, weighted_size, valid_after, sync,
                    invalidator, lastGet, hist >>

\* One attempt that finds the key present: the on_modify closure takes the
\* next serial number and stashes its op and the old entry in op2.
on_modify ==
    /\ insert_call.pc = "cas"
    /\ insert_call.calls < MaxCalls
    /\ insert_call' = [insert_call EXCEPT
                          !.op_cnt = (@ + 1) % U8,
                          !.op2 = [cnt |-> insert_call.op_cnt,
                                   call |-> insert_call.calls + 1],
                          !.calls = @ + 1,
                          !.last = "modify"]
    /\ UNCHANGED << invalidate_all_now, sync_call, cfg, now, cache, ents, cells, deqs, freq,
                    read_op_ch,
                    write_op_ch, inflight, weighted_size, valid_after, sync,
                    invalidator, lastGet, hist >>

\* The match on (op1, op2): the op do_insert_with_hash returns, and whether
\* it calls unset_q_nodes on the old entry.
match_ops(c) ==
    IF c.op2 = NoOp THEN [c EXCEPT !.ret = c.op1, !.kind = "insert"]
    ELSE IF c.op1 = NoOp THEN [c EXCEPT !.ret = c.op2, !.kind = "modify", !.unset = TRUE]
    ELSE IF c.op1.cnt > c.op2.cnt THEN [c EXCEPT !.ret = c.op1, !.kind = "insert"]
    ELSE [c EXCEPT !.ret = c.op2, !.kind = "modify", !.unset = TRUE]

\* The attempt of the last closure execution succeeds, insert_with_or_modify
\* returns and do_insert_with_hash picks its op.
insert_call_end ==
    /\ insert_call.pc = "cas"
    /\ insert_call.calls > 0
    /\ insert_call' = [match_ops(insert_call) EXCEPT !.pc = "done"]
    /\ UNCHANGED << invalidate_all_now, sync_call, cfg, now, cache, ents, cells, deqs, freq,
                    read_op_ch,
                    write_op_ch, inflight, weighted_size, valid_after, sync,
                    invalidator, lastGet, hist >>

\* The end of Inner::sync in two steps, the first: the sweep and, when the
\* registry is not empty and no task is running, process_invalidation_result.
\* Otherwise the cycle ends here.
sync_collect ==
    /\ sync.pc = "writes"
    /\ sync.left = 0
    /\ LET M1 == IF has_expiry \/ has_valid_after
                 THEN evict(MState, EVICTION_BATCH_SIZE, now) ELSE MState
           go == cfg.inv /\ ~invalidator.is_empty /\ ~invalidator.is_task_running
           M == IF go THEN remove_invalidated(M1, invalidator.task_result.invalidated)
                ELSE M1
       IN  /\ cache' = M.cache
           /\ ents' = M.ents
           /\ cells' = M.cells
           /\ deqs' = M.deqs
           /\ invalidator' = IF go THEN task_result(invalidator) ELSE invalidator
           /\ weighted_size' = IF go THEN weighted_size ELSE M.ws
           /\ sync' = IF go THEN [sync EXCEPT !.pc = "submit", !.ws = M.ws]
                      ELSE [Idle EXCEPT !.pc = "done", !.last = sync.last,
                                        !.clean = sync.clean]
    /\ lastGet' = NoGet
    /\ UNCHANGED << invalidate_all_now, insert_call, sync_call,
                    cfg, now, freq, read_op_ch, write_op_ch, inflight,
                    valid_after, hist >>

\* The second step: submit_invalidation_task, and weighted_size is published.
sync_submit ==
    /\ sync.pc = "submit"
    /\ invalidator' = [submit_invalidation_task(MState, invalidator,
                                                INVALIDATION_BATCH_SIZE, now)
                          EXCEPT !.is_done = FALSE]
    /\ weighted_size' = sync.ws
    /\ sync' = [Idle EXCEPT !.pc = "done", !.last = sync.last, !.clean = sync.clean]
    /\ lastGet' = NoGet
    /\ UNCHANGED << invalidate_all_now, insert_call, sync_call,
                    cfg, now, cache, ents, cells, deqs, freq, read_op_ch, write_op_ch,
                    inflight, valid_after, hist >>

\* -------------------------------------------------- the passes of sync
\* The flush points of the channels and the low-water mark of the write
\* channel, the default of max_repeats, and the ops the channels of a
\* counted sync hold at most
READ_LOG_FLUSH_POINT == 2
WRITE_LOG_FLUSH_POINT == 2
WRITE_LOG_LOW_WATER_MARK == WRITE_LOG_FLUSH_POINT \div 2
MAX_SYNC_REPEATS == 2
MaxPending == 3

\* A sync whose passes are counted.  r_len and w_len are the lengths of the
\* channels, which the other threads keep filling; calls and should_sync are
\* the locals of sync; pace is what it returns; r_seen and w_seen are history:
\* the lengths the last evaluation of should_sync has read.
NoSyncCall ==
    [pc |-> "idle", max_repeats |-> 0, calls |-> 0, should_sync |-> FALSE,
     r_len |-> 0, w_len |-> 0, pace |-> "none", r_seen |-> 0, w_seen |-> 0]

\* A get (record_read_op) or a write (schedule_write_op) of another thread
send_op ==
    /\ \/ /\ sync_call.r_len < MaxPending
          /\ sync_call' = [sync_call EXCEPT !.r_len = @ + 1]
       \/ /\ sync_call.w_len < MaxPending
          /\ sync_call' = [sync_call EXCEPT !.w_len = @ + 1]
    /\ UNCHANGED << invalidate_all_now, insert_call, cfg, now, cache, ents, cells, deqs, freq,
                    read_op_ch,
                    write_op_ch, inflight, weighted_size, valid_after, sync,
                    invalidator, lastGet, hist >>

\* Inner::sync, up to its loop, which it enters: should_sync is true and
\* calls is 0.
sync_call_begin(max_repeats) ==
    /\ sync_call.pc \in {"idle", "done"}
    /\ sync_call' = [sync_call EXCEPT !.pc = "pass", !.max_repeats = max_repeats,
                                      !.calls = 0, !.should_sync = TRUE,
                                      !.pace = "none", !.r_seen = 0, !.w_seen = 0]
    /\ UNCHANGED << invalidate_all_now, insert_call, cfg, now, cache, ents, cells, deqs, freq,
                    read_op_ch,
                    write_op_ch, inflight, weighted_size, valid_after, sync,
                    invalidator, lastGet, hist >>

\* A pass: apply_reads and apply_writes take the ops the channels held when
\* their lengths were read.
sync_call_pass ==
    /\ sync_call.pc = "pass"
    /\ sync_call' = [sync_call EXCEPT !.pc = "check", !.r_len = 0, !.w_len = 0]
    /\ UNCHANGED << invalidate_all_now, insert_call, cfg, now, cache, ents, cells, deqs, freq,
                    read_op_ch,
                    write_op_ch, inflight, weighted_size, valid_after, sync,
                    invalidator, lastGet, hist >>

\* The end of a pass: the pass is counted, should_sync is evaluated, and so
\* is the condition of the loop.
sync_call_check ==
    /\ sync_call.pc = "check"
    /\ LET should_sync == \/ sync_call.r_len >= READ_LOG_FLUSH_POINT
                          \/ sync_call.w_len >= WRITE_LOG_FLUSH_POINT
       IN  sync_call' = [sync_call EXCEPT
                           !.pc = IF should_sync /\ sync_call.calls + 1 <= sync_call.max_repeats
                                  THEN "pass" ELSE "tail",
                           !.calls = @ + 1,
                           !.should_sync = should_sync,
                           !.r_seen = sync_call.r_len,
                           !.w_seen = sync_call.w_len]
    /\ UNCHANGED << invalidate_all_now, insert_call, cfg, now, cache, ents, cells, deqs, freq,
                    read_op_ch,
                    write_op_ch, inflight, weighted_size, valid_after, sync,
                    invalidator, lastGet, hist >>

MutPace(c) == IF c.w_len <= WRITE_LOG_LOW_WATER_MARK THEN "Normal" ELSE "None"

\* The pace sync returns
SyncPace(c) ==
    IF c.should_sync THEN "Fast"
    ELSE IF c.w_len <= WRITE_LOG_LOW_WATER_MARK THEN "Normal"
    ELSE "None"

\* Inner::sync after its loop (the sweep, the invalidation and the store of
\* weighted_size take time, during which the channels fill): the pace
sync_call_end ==
    /\ sync_call.pc = "tail"
    /\ sync_call' = [sync_call EXCEPT !.pc = "done", !.pace = SyncPace(sync_call)]
    /\ UNCHANGED << invalidate_all_now, insert_call, cfg, now, cache, ents, cells, deqs, freq,
                    read_op_ch,
                    write_op_ch, inflight, weighted_size, valid_after, sync,
                    invalidator, lastGet, hist >>

\* ---------------------------------------------------------- specifications
NoCell == [la |-> None, lm |-> None, adm |-> FALSE]

\* BaseCache::new / Inner::new, for a configuration of Cs
InitWith(Cs) ==
    /\ cfg \in Cs
    /\ now = 1
    /\ cache = [k \in Keys |-> 0]
    /\ ents = << >>
    /\ cells = [c \in EntryIds |-> NoCell]
    /\ deqs = [window |-> << >>, probation |-> << >>, protected |-> << >>,
               write_order |-> << >>]
    /\ freq = [h \in Keys |-> 0]
    /\ read_op_ch = << >>
    /\ write_op_ch = << >>
    /\ inflight = {}
    /\ weighted_size = 0
    /\ valid_after = 0
    /\ sync = Idle
    /\ invalidator = NewInvalidator
    /\ insert_call = NoInsertCall
    /\ sync_call = NoSyncCall
    /\ invalidate_all_now = NoCalls
    /\ lastGet = NoGet
    /\ hist = [k \in Keys |-> NoHist]

\* The durations of the configurations, the keys their clients use and the
\* entries they build
TimeToLive == 2
TimeToIdle == 2
ExpKeys == 1
ExpEntries == 2

\* Unbounded caches with a time_to_live, and with a time_to_idle
ExpConfigs ==
    { [max_capacity |-> None, weigher |-> "default", ttl |-> TimeToLive, tti |-> None,
       inv |-> FALSE, keys |-> ExpKeys, entries |-> ExpEntries,
       preds |-> 0, ticks |-> MaxTime, writers |-> MaxInflight],
      [max_capacity |-> None, weigher |-> "default", ttl |-> None, tti |-> TimeToIdle,
       inv |-> FALSE, keys |-> ExpKeys, entries |-> ExpEntries,
       preds |-> 0, ticks |-> MaxTime, writers |-> MaxInflight] }

\* The max_capacity of the bounded configurations
MaxCapacity == 1

\* Bounded caches without expiration: with the default weigher, and with a
\* weigher that returns the value
CapConfigs ==
    { [max_capacity |-> MaxCapacity, weigher |-> "default", ttl |-> None, tti |-> None,
       inv |-> FALSE, keys |-> NumKeys, entries |-> MaxEntries,
       preds |-> 0, ticks |-> MaxTime, writers |-> MaxInflight],
      [max_capacity |-> MaxCapacity, weigher |-> "value", ttl |-> None, tti |-> None,
       inv |-> FALSE, keys |-> NumKeys, entries |-> MaxEntries,
       preds |-> 0, ticks |-> MaxTime, writers |-> MaxInflight] }

\* The values inserted: the default weigher does not look at the value.
InsertValues == IF cfg.weigher = "value" THEN Values ELSE {1}

Client ==
    \/ \E k \in 1 .. cfg.keys : get_with_hash(k)
    \/ \E k \in 1 .. cfg.keys, v \in InsertValues : do_insert_with_hash(k, v)
    \/ \E k \in 1 .. cfg.keys : remove_entry(k)
    \/ \E op \in inflight : schedule_write_op(op)

Maintenance == sync_begin \/ sync_apply_write \/ sync_end

Next == Client \/ Maintenance \/ invalidate_all \/ Tick

NextCap == Client \/ Maintenance

\* The keys and the entries of the clients of the invalidation configuration,
\* and the last value of its clock
InvKeys == 2
InvEntries == 2
InvTime == 2

\* An unbounded cache without expiration, with the invalidator enabled
InvConfigs ==
    { [max_capacity |-> None, weigher |-> "default", ttl |-> None, tti |-> None,
       inv |-> TRUE, keys |-> InvKeys, entries |-> InvEntries, preds |-> 1,
       ticks |-> InvTime, writers |-> MaxInflight] }

\* Every combination of a time_to_live and of invalidator_enabled; the
\* clients only register and remove predicates.
RegConfigs ==
    { [max_capacity |-> None, weigher |-> "default", ttl |-> l, tti |-> None,
       inv |-> i, keys |-> 0, entries |-> 0, preds |-> NumIds + 1, ticks |-> MaxTime,
       writers |-> MaxInflight] :
      l \in {None, TimeToLive}, i \in BOOLEAN }

\* The clients of the invalidation configuration read and insert.
ClientInv ==
    \/ \E k \in 1 .. cfg.keys : get_with_hash(k)
    \/ \E k \in 1 .. cfg.keys, v \in InsertValues : do_insert_with_hash(k, v)
    \/ \E op \in inflight : schedule_write_op(op)

NextInv == ClientInv \/ Maintenance \/ invalidate_entries_if \/ execute \/ Tick

NextReg == invalidate_entries_if \/ (\E id \in PredIds : remove_predicate_call(id)) \/ Tick

\* Invalidation by predicate
SpecInv == InitWith(InvConfigs) /\ [][NextInv]_vars

\* Invalidation by predicate when the maintenance cycles and the invalidation
\* task are scheduled fairly and the writers send their WriteOps
SpecInvFair ==
    /\ SpecInv
    /\ WF_vars(Maintenance)
    /\ WF_vars(execute)
    /\ WF_vars(\E op \in inflight : schedule_write_op(op))

\* The registration of predicates
SpecReg == InitWith(RegConfigs) /\ [][NextReg]_vars

\* The nodes of probation when the admission of a candidate is decided, and
\* the largest frequency the sketch gives then
AdmNodes == 7
AdmMaxFreq == 2

\* A maintenance cycle is about to apply the Upsert of a candidate on a fresh
\* key and the cache is full: AdmNodes entries are admitted, on a key each,
\* with their nodes in probation in the order of their keys.  The clients
\* have removed the entries that are not in `live` and have not sent the
\* Removes yet.  The entries of the odd keys have value va and frequency
\* fa, those of the even keys vb and fb; the candidate has cv and cf.
InitAdmit ==
    \E live \in SUBSET (1 .. AdmNodes), va \in Values, vb \in Values,
       fa \in 0 .. AdmMaxFreq, fb \in 0 .. AdmMaxFreq,
       cv \in 1 .. MaxValue + 1, cf \in 0 .. AdmMaxFreq :
        LET c == AdmNodes + 1
            total == ((AdmNodes + 1) \div 2) * va + (AdmNodes \div 2) * vb
        IN  /\ cfg = [max_capacity |-> total, weigher |-> "value", ttl |-> None,
                      tti |-> None, inv |-> FALSE, keys |-> c, entries |-> c,
                      preds |-> 0, ticks |-> 1, writers |-> MaxInflight]
            /\ now = 1
            /\ cache = [k \in 1 .. c |-> IF k = c \/ k \in live THEN k ELSE 0]
            /\ ents = [i \in 1 .. c |->
                         [key |-> i,
                          value |-> IF i = c THEN cv ELSE IF i % 2 = 1 THEN va ELSE vb,
                          cell |-> i, ao |-> IF i = c THEN 0 ELSE i, wo |-> 0,
                          upd |-> FALSE]]
            /\ cells = [i \in 1 .. c |->
                          IF i = c THEN NoCell ELSE [la |-> 1, lm |-> 1, adm |-> TRUE]]
            /\ deqs = [window |-> << >>, probation |-> [i \in 1 .. AdmNodes |-> i],
                       protected |-> << >>, write_order |-> << >>]
            /\ freq = [h \in 1 .. c |->
                         IF h = c THEN cf ELSE IF h % 2 = 1 THEN fa ELSE fb]
            /\ read_op_ch = << >>
            /\ write_op_ch = << [type |-> "Upsert", entry |-> c] >>
            /\ inflight = { [type |-> "Remove", entry |-> e] : e \in (1 .. AdmNodes) \ live }
            /\ weighted_size = total
            /\ valid_after = 0
            /\ sync = [pc |-> "writes", current_ws |-> total, ws |-> total, left |-> 1,
                       ts |-> 1, last |-> "none", clean |-> FALSE]
            /\ invalidator = NewInvalidator
            /\ insert_call = NoInsertCall
            /\ sync_call = NoSyncCall
            /\ invalidate_all_now = NoCalls
            /\ lastGet = NoGet
            /\ hist = [k \in 1 .. c |-> NoHist]

NextAdmit == sync_apply_write \/ sync_end

\* Admission: the rest of a maintenance cycle that finds the cache full
SpecAdmit == InitAdmit /\ [][NextAdmit]_vars

\* Expiration: the clock advances and invalidate_all is called.
Spec == InitWith(ExpConfigs) /\ [][Next]_vars

\* Capacity: admission and eviction under a max_capacity.
SpecCap == InitWith(CapConfigs) /\ [][NextCap]_vars

\* ------------------------------------------------- claims about expiration
\* C1: a get never returns an entry whose last_modified is before valid_after,
\* nor one whose last_modified + time_to_live or last_accessed + time_to_idle
\* is at or before the time of the get.
C1_GetReturnsNoExpiredEntry ==
    lastGet.res # 0 =>
        /\ ~(lastGet.lm # None /\ lastGet.lm < lastGet.va)
        /\ ~(cfg.ttl # None /\ lastGet.lm # None /\ lastGet.lm + cfg.ttl <= lastGet.now)
        /\ ~(cfg.tti # None /\ lastGet.la # None /\ lastGet.la + cfg.tti <= lastGet.now)

\* A get returned an entry that maintenance had stamped, after an
\* invalidate_all and after the clock had advanced.
C1_Witness ==
    /\ lastGet.res # 0
    /\ lastGet.lm # None
    /\ lastGet.va > 0
    /\ lastGet.now > lastGet.lm

\* C2: once invalidate_all has returned, a get of a key whose latest insert
\* had completed before the call returns not-found, whether or not a
\* maintenance cycle ran in between.
C2_InvalidateAllHidesEarlierInserts ==
    lastGet.res # 0 => ~hist[lastGet.key].wiped

\* C3: under a time_to_live, when the last insert of a key completed at time
\* t, a get at or after t + time_to_live returns not-found, whether or not a
\* maintenance cycle ran in between.
C3_NoValueAfterTimeToLive ==
    (cfg.ttl # None /\ lastGet.res # 0 /\ hist[lastGet.key].born # None) =>
        lastGet.now < hist[lastGet.key].born + cfg.ttl

\* C4: under a time_to_idle, a get that returned a value at time t keeps the
\* entry alive until t + time_to_idle: no later get before that time finds the
\* entry idle (the entry was not invalidated), for every maintenance schedule
\* and also when the ReadOp of the first get was discarded.
C4_HitKeepsEntryAlive ==
    (cfg.tti # None /\ lastGet.why = "ao" /\ ~(lastGet.la < lastGet.va)) =>
        \/ hist[lastGet.key].hit = None
        \/ lastGet.now >= hist[lastGet.key].hit + cfg.tti

\* --------------------------------------------------- claims about capacity
\* The admitted entries: of each lineage whose admitted flag is set, the entry
\* built last, which holds the current value.
AdmittedEntries ==
    { e \in 1 .. Len(ents) :
        /\ is_admitted(cells, ents, e)
        /\ \A f \in 1 .. Len(ents) : ents[f].cell = ents[e].cell => f <= e }

RECURSIVE SumWeights(_)
SumWeights(S) ==
    IF S = {} THEN 0
    ELSE LET e == CHOOSE x \in S : TRUE
         IN  weigh(ents[e].key, ents[e].value) + SumWeights(S \ {e})

AdmittedWeight == SumWeights(AdmittedEntries)

\* A maintenance cycle has just ended, the write channel is empty and no write
\* is under way.
AfterMaintenance == sync.pc = "done" /\ write_op_ch = << >> /\ inflight = {}

\* C5: after a maintenance cycle that leaves the write channel empty,
\* weighted_size is the sum of weigher(key, current value) over the admitted
\* entries, also when a key was updated to a value of another weight.
C5_WeightedSizeIsSumOfWeights ==
    AfterMaintenance => weighted_size = AdmittedWeight

C7_WeightWithinCapacity ==
    (AfterMaintenance /\ cfg.max_capacity # None) =>
        /\ AdmittedWeight <= cfg.max_capacity
        /\ weighted_size <= cfg.max_capacity

\* Maintenance is applying the Upsert of entry e.
ApplyingUpsert(e) ==
    /\ sync.pc = "writes"
    /\ sync.left > 0
    /\ Head(write_op_ch) = [type |-> "Upsert", entry |-> e]
    /\ sync'.left = sync.left - 1

\* C8: when maintenance applies the Upsert of an entry whose weight is greater
\* than max_capacity, the key is removed from the hash map (a get returns
\* not-found), and the entry is not admitted: the weighted size and the deques
\* are left as they were.
C8_OversizeEntryIsRejected ==
    [][\A e \in 1 .. Len(ents) :
          ( /\ ApplyingUpsert(e)
            /\ cfg.max_capacity # None
            /\ weigh(ents[e].key, ents[e].value) > cfg.max_capacity )
          => /\ cache'[ents[e].key] = 0
             /\ sync'.ws = sync.ws
             /\ deqs' = deqs]_vars

\* C9: a get of k that follows a completed insert of k returns the value of
\* that insert or of a later one, or not-found; never an older value.
C9_GetReturnsNoOlderValue ==
    lastGet.res # 0 =>
        \A e \in 1 .. Len(ents) :
            (ents[e].key = lastGet.key /\ Completed(e)) => lastGet.res >= e

\* A get returned the value of the second insert of its key.
C9_Witness ==
    /\ lastGet.res # 0
    /\ \E e \in 1 .. Len(ents) : e < lastGet.res /\ ents[e].key = lastGet.key

\* s and t hold the same nodes in the same order, but for node n, which is at
\* the MRU end of t when s holds it.
MovedToBack(s, t, n) ==
    /\ Len(t) = Len(s)
    /\ RemoveNode(t, n) = RemoveNode(s, n)
    /\ InSeq(s, n) => t[Len(t)] = n

\* What the update path does for entry e of key k: nothing is admitted or
\* evicted, the weighted size is unchanged, the entry's nodes go to the MRU end
\* of their deques, the hash map is unchanged and a get of k returns the value
\* the map holds.
OnlyMovesNodes(e) ==
    /\ cache' = cache
    /\ sync'.ws = sync.ws
    /\ \A c \in EntryIds : cells'[c].adm = cells[c].adm
    /\ MovedToBack(deqs.probation, deqs'.probation, ents[e].ao)
    /\ MovedToBack(deqs.write_order, deqs'.write_order, ents[e].wo)
    /\ deqs'.window = deqs.window /\ deqs'.protected = deqs.protected
    /\ cache[ents[e].key] = e =>
          /\ ~is_expired_entry_wo(cfg.ttl, valid_after, last_modified(cells', ents', e), now)
          /\ ~is_expired_entry_ao(cfg.tti, valid_after, last_accessed(cells', ents', e), now)

\* C10: the Upsert of an update of a key that was admitted when it was updated
\* never runs admission and never evicts: it only moves the entry's nodes.
C10_UpdateNeverRunsAdmission ==
    [][\A e \in 1 .. Len(ents) :
          (ApplyingUpsert(e) /\ ents[e].upd) => OnlyMovesNodes(e)]_vars

\* ------------------------------------------------- claims about the deques
\* The nodes of the access-order deques, and of all the deques
AoNodes == deqs.window \o deqs.probation \o deqs.protected

AllNodes == AoNodes \o deqs.write_order

\* The WriteOps that are pending: in the write channel, or about to be sent
PendingOps == { write_op_ch[i] : i \in 1 .. Len(write_op_ch) } \cup inflight

\* C11: for every node of a deque, the hash map holds an entry of the node's
\* lineage under the node's key, or a WriteOp of an entry of that lineage is
\* still pending.
C11_NodeIsOfLiveEntryOrPendingOp ==
    \A i \in 1 .. Len(AllNodes) :
        LET n == AllNodes[i]
            k == ents[n].key
        IN  \/ cache[k] # 0 /\ ents[cache[k]].cell = ents[n].cell
            \/ \E op \in PendingOps : ents[op.entry].cell = ents[n].cell

\* How many nodes of the sequence s belong to the lineage c
RECURSIVE CountNodes(_, _)
CountNodes(s, c) ==
    IF s = << >> THEN 0
    ELSE (IF ents[Head(s)].cell = c THEN 1 ELSE 0) + CountNodes(Tail(s), c)

\* The lineages: the cells of the entries built so far
Lineages == { ents[e].cell : e \in 1 .. Len(ents) }

\* C12: between maintenance cycles, an entry whose admitted flag is true has
\* exactly one node in the access-order deques and has a write-order node if
\* and only if the write-order queue is enabled; an entry whose admitted flag
\* is false has no node in any deque.
C12_AdmittedIffOneNode ==
    sync.pc # "writes" =>
        \A c \in Lineages :
            IF cells[c].adm
            THEN /\ CountNodes(AoNodes, c) = 1
                 /\ CountNodes(deqs.write_order, c)
                        = (IF is_write_order_queue_enabled THEN 1 ELSE 0)
            ELSE CountNodes(AllNodes, c) = 0

\* ------------------------------------------------------ claims about get
\* C18: a get changes nothing but the read channel, to which it appends at
\* most one ReadOp, and none when the channel is full; an entry it finds
\* expired stays in the hash map.
C18_GetOnlyRecordsAReadOp ==
    [][lastGet'.key # 0 =>
          /\ UNCHANGED << cache, ents, cells, deqs, weighted_size, valid_after,
                          freq, write_op_ch, inflight >>
          /\ \/ read_op_ch' = read_op_ch
             \/ /\ Len(read_op_ch) < READ_LOG_SIZE
                /\ Len(read_op_ch') = Len(read_op_ch) + 1
                /\ SubSeq(read_op_ch', 1, Len(read_op_ch)) = read_op_ch]_vars

\* A get has found an entry expired, and the hash map still holds the entry.
C18_Witness ==
    /\ lastGet.why \in {"wo", "ao"}
    /\ cache[lastGet.key] # 0

\* ------------------------------------------------ claims about the sweeper
\* The entries the cache still holds: in the map or as a node of a deque
Held == { cache[k] : k \in { x \in Keys : cache[x] # 0 } }
            \cup { AllNodes[i] : i \in 1 .. Len(AllNodes) }

\* C16: when invalidate_all is called after every insert has completed and
\* no write follows, the next complete maintenance cycle leaves no entry
\* modified before valid_after in the map or in a deque, and publishes a
\* weighted_size of 0.
C16_CycleAfterInvalidateAllSweepsAll ==
    sync.pc = "done" /\ sync.clean =>
        /\ \A e \in Held : ~(last_modified(cells, ents, e) # None
                               /\ last_modified(cells, ents, e) < valid_after)
        /\ weighted_size = 0

\* C17: under a time_to_live, when a maintenance cycle has drained the write
\* channel, no entry whose last_modified + time_to_live is at or before the
\* time of the cycle is left in the map or in a deque, and weighted_size is 0
\* when nothing is left in the map.
C17_CycleSweepsTimeToLive ==
    cfg.ttl # None /\ sync.pc = "done" /\ write_op_ch = << >> /\ inflight = {} =>
        /\ \A e \in Held : ~(last_modified(cells, ents, e) # None
                               /\ last_modified(cells, ents, e) + cfg.ttl <= now)
        /\ (\A k \in Keys : cache[k] = 0) => weighted_size = 0

\* ------------------------------------------- claims about the invalidator
\* C13: once invalidate_entries_if has returned, every entry of the map that
\* satisfies the closure and whose insert had completed before the call is
\* eventually out of the map (invalidated, or replaced or removed by a client).
C13_InvalidateIfEventuallyRemoves ==
    \A e \in 1 .. InvEntries :
        (e \in invalidator.targets) ~> (e > Len(ents) \/ cache[ents[e].key] # e)

C15_RegisterPredicateAllocatesFreshId ==
    [][invalidator'.last_key # invalidator.last_key =>
          LET I == invalidator
              J == invalidator'
          IN  /\ J.res \in {"Ok", "NoSpaceLeft"}
              /\ J.res = "Ok" =>
                    /\ I.predicates[J.id] = None
                    /\ J.predicates = [I.predicates EXCEPT ![J.id] = now]
                    /\ ~J.is_empty
              /\ J.res = "NoSpaceLeft" =>
                    /\ \A n \in 0 .. MAX_RETRY - 1 :
                           I.predicates[(I.last_key + n) % NumIds] # None
                    /\ J.predicates = I.predicates
                    /\ J.is_empty = I.is_empty]_vars

\* A registration has found MAX_RETRY used ids in a row.
C15_Witness == invalidator.res = "NoSpaceLeft"

\* ------------------------------------------------- claims about admission
\* Maintenance is applying the Upsert of entry e and handle_upsert calls admit.
Admitting(e) == ApplyingUpsert(e) /\ sync'.last = "admit"

\* The candidate handle_upsert gives to admit for entry e
Candidate(e) ==
    [weight |-> weigh(ents[e].key, ents[e].value), freq |-> freq[hash(ents[e].key)]]

\* C19: when handle_upsert calls admit for a candidate, the candidate is
\* admitted if and only if the victims accumulated have at least its weight
\* and a frequency strictly less than its own; a candidate of frequency 0 is
\* rejected.
C19_AdmitIffWeightCoveredAndMoreFrequent ==
    [][\A e \in 1 .. Len(ents) :
          Admitting(e) =>
            LET W == admit_walk(MState, Candidate(e), 1, NoVictims)
                admitted == is_admitted(cells', ents', e)
            IN  /\ admitted <=> ( /\ W.weight >= Candidate(e).weight
                                  /\ Candidate(e).freq > W.freq )
                /\ Candidate(e).freq = 0 => ~admitted
                /\ ~admitted => cache'[ents[e].key] = 0]_vars

\* A candidate was admitted by admit, and victims went out of the map for it.
C19_Witness ==
    /\ sync.last = "admit"
    /\ \E e \in 1 .. Len(ents) :
          /\ cache[ents[e].key] = e
          /\ is_admitted(cells, ents, e)
          /\ ents[e].ao = e
          /\ deqs.probation # << >>
          /\ deqs.probation[Len(deqs.probation)] = e
    /\ \E e \in 1 .. Len(ents) : cache[ents[e].key] = 0 /\ ~is_admitted(cells, ents, e)

\* The key of the i-th node of probation, from the LRU end, and whether the
\* map holds an entry under it
NodeKey(i) == ents[deqs.probation[i]].key
Live(i) == cache[NodeKey(i)] # 0

RECURSIVE PrefixWeight(_)
\* The weight of the live entries among the first n nodes of probation
PrefixWeight(n) ==
    IF n = 0 THEN 0
    ELSE PrefixWeight(n - 1)
           + (IF Live(n) THEN weigh(NodeKey(n), ents[cache[NodeKey(n)]].value) ELSE 0)

RECURSIVE PrefixFreq(_)
\* The frequency of the live entries among the first n nodes of probation
PrefixFreq(n) ==
    IF n = 0 THEN 0
    ELSE PrefixFreq(n - 1) + (IF Live(n) THEN freq[hash(NodeKey(n))] ELSE 0)

\* The lengths of the prefixes of probation whose live entries cover weight w
Covers(w) == { n \in 1 .. Len(deqs.probation) : PrefixWeight(n) >= w }

\* The first n nodes of probation hold more than MAX_CONSECUTIVE_RETRIES
\* nodes in a row whose key is not in the map.
MissingRun(n) ==
    \E j \in 1 .. n :
        /\ j + MAX_CONSECUTIVE_RETRIES <= n
        /\ \A i \in j .. j + MAX_CONSECUTIVE_RETRIES : ~Live(i)

\* C20: when admit admits a candidate, the entries evicted are those of the
\* shortest prefix of probation, from the LRU end, whose live entries cover
\* the candidate's weight, the nodes whose key is not in the map being
\* skipped; and the candidate is admitted exactly when such a prefix exists,
\* it holds no more than MAX_CONSECUTIVE_RETRIES missing keys in a row, and
\* its frequency is less than the candidate's.
C20_VictimsAreShortestLivePrefix ==
    [][\A e \in 1 .. Len(ents) :
          Admitting(e) =>
            LET w == Candidate(e).weight
                admitted == is_admitted(cells', ents', e)
                n == CHOOSE m \in Covers(w) : \A x \in Covers(w) : m <= x
            IN  /\ admitted <=> ( /\ Covers(w) # {}
                                  /\ ~MissingRun(n)
                                  /\ Candidate(e).freq > PrefixFreq(n) )
                /\ admitted =>
                      { k \in DOMAIN cache : cache[k] # 0 /\ cache'[k] = 0 }
                        = { NodeKey(i) : i \in { x \in 1 .. n : Live(x) } }]_vars

\* A candidate was admitted, two entries were evicted for it, and the walk
\* skipped a node whose entry a client had removed.
C20_Witness ==
    /\ sync.last = "admit"
    /\ \E e \in 1 .. Len(ents) : cache[ents[e].key] = e /\ ents[e].ao = e
    /\ Cardinality({ e \in 1 .. Len(ents) :
                        cache[ents[e].key] = 0 /\ ~is_admitted(cells, ents, e) }) >= 2
    /\ \E e \in 1 .. Len(ents) :
          /\ [type |-> "Remove", entry |-> e] \in inflight
          /\ deqs.probation[Len(deqs.probation) - 1] = e

\* C21: when admit rejects a candidate, the map loses the candidate's own
\* entry and nothing else (the entry stored under the candidate's key was the
\* candidate or none, and nothing is stored there afterwards); the weighted size, the
\* admitted flags and the nodes of the deques are as they were, and probation
\* keeps its order but for the skipped nodes, whose key is not in the map and
\* which go to the MRU end.
C21_RejectOnlyRemovesCandidate ==
    [][\A e \in 1 .. Len(ents) :
          (Admitting(e) /\ ~is_admitted(cells', ents', e)) =>
            LET W == admit_walk(MState, Candidate(e), 1, NoVictims)
                skipped == W.skipped_nodes
                IsSkipped(n) == \E i \in 1 .. Len(skipped) : skipped[i] = n
            IN  /\ cache[ents[e].key] \in {0, e}
                /\ cache' = [cache EXCEPT ![ents[e].key] = 0]
                /\ sync'.ws = sync.ws
                /\ weighted_size' = weighted_size
                /\ \A c \in DOMAIN cells : cells'[c].adm = cells[c].adm
                /\ \A i \in 1 .. Len(skipped) : cache[ents[skipped[i]].key] = 0
                /\ deqs'.probation
                     = SelectSeq(deqs.probation, LAMBDA n : ~IsSkipped(n)) \o skipped
                /\ deqs'.window = deqs.window
                /\ deqs'.protected = deqs.protected
                /\ deqs'.write_order = deqs.write_order]_vars

\* ------------------------------------- claims about do_insert_with_hash
NextSerial == insert_call_begin \/ on_insert \/ on_modify \/ insert_call_end

SpecSerial == InitWith(RegConfigs) /\ [][NextSerial]_vars

\* C22: do_insert_with_hash returns the op of the closure execution that
\* ran last, which built the entry the map stores, and it has called
\* unset_q_nodes on the old entry exactly when that execution was on_modify,
\* however many times the closures were executed.
C22_ReturnsOpOfLastClosureCall ==
    insert_call.pc = "done" =>
        /\ insert_call.ret.call = insert_call.calls
        /\ insert_call.kind = insert_call.last
        /\ insert_call.unset = (insert_call.last = "modify")

\* ------------------------------------------- claims about the predicates
\* What apply_predicates is to return for the entry e of key k
Applicable(k, e) ==
    /\ Registered(invalidator) # {}
    /\ last_modified(cells, ents, e) # None
    /\ \E r \in Registered(invalidator) :
          /\ last_modified(cells, ents, e) <= r
          /\ (last_modified(cells, ents, e) < oldest \/ last_modified(cells, ents, e) > newest)
          /\ PredicateFun(k, ents[e].value)

\* C23: apply_predicates returns true for an entry exactly when the registry
\* is not empty, the entry has a last-modified time and a registered predicate
\* is applicable to that time and true of the key and the value; a get that
\* finds an entry not expired reports it invalidated exactly then.
C23_ApplyPredicatesIffApplicable ==
    /\ \A k \in Keys : cache[k] # 0 =>
          (apply_predicates(invalidator, k, cache[k]) <=> Applicable(k, cache[k]))
    /\ (cfg.inv /\ lastGet.why \in {"iv", "hit"}) =>
          ((lastGet.why = "iv") <=> Applicable(lastGet.key, cache[lastGet.key]))

\* A get has found an entry whose last-modified time is unset while a
\* predicate true of it is registered, and has returned the entry.
C23_Witness ==
    /\ lastGet.why = "hit"
    /\ lastGet.lm = None
    /\ Registered(invalidator) # {}
    /\ PredicateFun(lastGet.key, ents[lastGet.res].value)

\* The execute step of the invalidation task removes key k from the map.
TaskRemoves(k) ==
    /\ invalidator.task # NoTask
    /\ invalidator'.task = NoTask
    /\ cache[k] # 0
    /\ cache'[k] = 0

\* C24: a predicate never affects an entry modified after its registration:
\* a get reports an entry invalidated only when a registered predicate is
\* not older than the entry's last-modified time, and the task removes an
\* entry only when a predicate of its scan context is not older than it.
C24_PredicateSparesLaterEntries ==
    [][/\ (cfg.inv /\ lastGet'.why = "iv") =>
              /\ lastGet'.lm # None
              /\ \E r \in Registered(invalidator') : lastGet'.lm <= r
       /\ \A k \in Keys : TaskRemoves(k) =>
              /\ last_modified(cells, ents, cache[k]) # None
              /\ \E r \in invalidator.ctx : last_modified(cells, ents, cache[k]) <= r]_vars

\* A get has returned an entry of which the predicate is true and which was
\* modified after every registered predicate was registered.
C24_Witness ==
    /\ lastGet.why = "hit"
    /\ lastGet.lm # None
    /\ Registered(invalidator) # {}
    /\ \A r \in Registered(invalidator) : lastGet.lm > r
    /\ PredicateFun(lastGet.key, ents[lastGet.res].value)

\* The entry the map holds under k has the last-modified time of a
\* candidate of that key.
MatchesCandidate(k) ==
    \E i \in 1 .. Len(invalidator.task.candidates) :
        /\ invalidator.task.candidates[i].key = k
        /\ invalidator.task.candidates[i].timestamp = last_modified(cells, ents, cache[k])

\* C25: the task removes a key only when the entry the map holds then has
\* the last-modified time of a candidate of that key, and it never removes
\* an entry built after the candidates were taken.
C25_TaskNeverRemovesLaterEntry ==
    [][\A k \in Keys : TaskRemoves(k) =>
          /\ MatchesCandidate(k)
          /\ cache[k] <= invalidator.task.built]_vars

\* The task removes a key only when the entry the map holds then has the
\* last-modified time of a candidate of that key; an entry built after the
\* candidates were taken is removed only when maintenance has stamped it
\* with a clock reading equal to the time the candidates were taken.
C25_TaskRemovesOnlyOnEqualTimestamp ==
    [][\A k \in Keys : TaskRemoves(k) =>
          /\ MatchesCandidate(k)
          /\ last_modified(cells, ents, cache[k]) <= invalidator.task.at
          /\ cache[k] > invalidator.task.built =>
                last_modified(cells, ents, cache[k]) = invalidator.task.at]_vars

\* The task has run and has spared a key of its candidates, of which the
\* predicate is true, because the entry was updated after the candidates
\* were taken.
C25_Witness ==
    /\ invalidator.task_result.some
    /\ invalidator.task_result.invalidated = << >>
    /\ invalidator.task_result.newest_timestamp # None
    /\ \E k \in Keys :
          /\ cache[k] # 0
          /\ PredicateFun(k, ents[cache[k]].value)
          /\ ents[cache[k]].upd
          /\ ents[cache[k]].wo # 0
          /\ k \in {ents[e].key : e \in invalidator.targets}

\* ------------------------------------------ claims about the task protocol
\* The keys and the entries of the clients of the task configuration, and
\* the last value of its clock
TaskKeys == 1
TaskEntries == 2
TaskTime == 2

TaskConfigs ==
    { [max_capacity |-> None, weigher |-> "default", ttl |-> None, tti |-> None,
       inv |-> TRUE, keys |-> TaskKeys, entries |-> TaskEntries, preds |-> 1,
       ticks |-> TaskTime, writers |-> MaxInflight] }

MaintenanceTask == sync_begin \/ sync_apply_write \/ sync_collect \/ sync_submit

NextTask ==
    \/ ClientInv
    \/ MaintenanceTask
    \/ invalidate_entries_if
    \/ \E id \in PredIds : remove_predicate_call(id)
    \/ execute_store
    \/ execute_clear
    \/ Tick

\* Invalidation by predicate, with the steps of the task and of the end of
\* the cycle that other threads can observe
SpecTask == InitWith(TaskConfigs) /\ [][NextTask]_vars

\* C26: at most one invalidation task is in flight: a task is submitted
\* only when no task is running and no result is pending (the assertions of
\* submit_task), after the result of the task before it was collected;
\* results are collected only when no task is running (the assertion of
\* task_result); a result is stored only while the flag is set.
C26_OneTaskAtATime ==
    [][/\ (invalidator'.task # NoTask /\ invalidator'.task # invalidator.task) =>
              /\ ~invalidator.is_task_running
              /\ ~invalidator.task_result.some
              /\ invalidator.task = NoTask
              /\ invalidator.pending = 0
       /\ (sync.pc = "writes" /\ sync'.pc = "submit") => ~invalidator.is_task_running
       /\ invalidator'.pending <= 1
       /\ invalidator'.task_result.some /\ ~invalidator.task_result.some =>
              invalidator.is_task_running]_vars

\* A second task runs: the result of the first was collected and the next
\* cycle has submitted a task again.
C26_Witness ==
    /\ invalidator.is_task_running
    /\ invalidator.task # NoTask
    /\ invalidator.pending = 1
    /\ \E e \in 1 .. Len(ents) : e \in invalidator.targets /\ cache[ents[e].key] # e

\* ----------------------------------- claims about the collection of a result
\* The ids of the predicates of a drawn registry
CollectIds == 2

\* A cache whose entries are gone while the result of a task is pending:
\* the registry holds predicates registered at drawn times, the scan context
\* is a non-empty part of them, and the result, truncated or not, has a
\* newest scanned timestamp and (the entries being gone) nothing invalidated.
InitCollect ==
    \E regs \in [0 .. CollectIds - 1 -> 1 .. MaxTime], ctx \in SUBSET (1 .. MaxTime),
       trunc \in BOOLEAN, ts \in 1 .. MaxTime :
        /\ ctx # {}
        /\ ctx \subseteq { regs[i] : i \in 0 .. CollectIds - 1 }
        /\ cfg \in { [c EXCEPT !.keys = 0, !.entries = 0] : c \in TaskConfigs }
        /\ now = MaxTime
        /\ cache = [k \in Keys |-> 0]
        /\ ents = << >>
        /\ cells = [c \in EntryIds |-> NoCell]
        /\ deqs = [window |-> << >>, probation |-> << >>, protected |-> << >>,
                   write_order |-> << >>]
        /\ freq = [h \in Keys |-> 0]
        /\ read_op_ch = << >>
        /\ write_op_ch = << >>
        /\ inflight = {}
        /\ weighted_size = 0
        /\ valid_after = 0
        /\ sync = Idle
        /\ invalidator =
              [NewInvalidator EXCEPT
                 !.predicates = [i \in PredIds |-> IF i < CollectIds THEN regs[i] ELSE None],
                 !.is_empty = FALSE,
                 !.last_key = CollectIds - 1,
                 !.ctx = ctx,
                 !.task_result = [some |-> TRUE, invalidated |-> << >>,
                                  is_truncated |-> trunc, newest_timestamp |-> ts],
                 !.pending = 1]
        /\ insert_call = NoInsertCall
        /\ sync_call = NoSyncCall
        /\ invalidate_all_now = NoCalls
        /\ lastGet = NoGet
        /\ hist = [k \in Keys |-> NoHist]

NextCollect == sync_begin \/ sync_collect \/ sync_submit

SpecCollect == InitCollect /\ [][NextCollect]_vars

\* Maintenance collects a result.
Collecting ==
    /\ sync.pc = "writes"
    /\ sync'.pc = "submit"
    /\ invalidator.task_result.some

\* C27: when maintenance collects the result of a truncated batch, the scan
\* context keeps the predicates registered at or after the newest scanned
\* timestamp and is_done is whether none is left; for a batch that was not
\* truncated the context is cleared and is_done is true; the result is taken,
\* so that it is returned once.
C27_CollectNarrowsOrClearsContext ==
    [][Collecting =>
          /\ invalidator.task_result.is_truncated =>
                /\ invalidator'.ctx = { r \in invalidator.ctx :
                                          r >= invalidator.task_result.newest_timestamp }
                /\ invalidator'.is_done = (invalidator'.ctx = {})
          /\ ~invalidator.task_result.is_truncated =>
                /\ invalidator'.ctx = {}
                /\ invalidator'.is_done
          /\ invalidator'.task_result = NoResult
          /\ invalidator'.pending = invalidator.pending - 1
          /\ invalidator'.pending >= 0]_vars

\* The result of a truncated batch was collected; a predicate registered
\* at the newest scanned timestamp is kept and an older one is dropped, so
\* the scan is not done.
C27_Witness ==
    /\ sync.pc = "submit"
    /\ ~invalidator.task_result.some
    /\ ~invalidator.is_done
    /\ invalidator.ctx # {}
    /\ \E r \in Registered(invalidator) : r \notin invalidator.ctx
    /\ invalidator.pending = 0

\* The task protocol when the maintenance cycles and the steps of the task
\* are scheduled fairly and the writers send their WriteOps
SpecTaskFair ==
    /\ SpecTask
    /\ WF_vars(MaintenanceTask)
    /\ WF_vars(execute_store)
    /\ WF_vars(execute_clear)
    /\ WF_vars(\E op \in inflight : schedule_write_op(op))

\* The result of a task is pending and holds entry e, which the task removed.
RemovedByTask(e) ==
    \E i \in 1 .. Len(invalidator.task_result.invalidated) :
        invalidator.task_result.invalidated[i] = e

\* C28: an entry the task removed from the map is eventually passed to
\* handle_remove: the result that holds it is collected, and the entry is
\* not admitted any more and has no node in the deques.
C28_RemovedEntriesEventuallyHandled ==
    \A e \in 1 .. TaskEntries :
        RemovedByTask(e) ~>
            (/\ ~RemovedByTask(e)
             /\ e <= Len(ents)
             /\ ~is_admitted(cells, ents, e)
             /\ CountNodes(AllNodes, ents[e].cell) = 0)

\* ------------------------------------------ claims about the passes of sync
NextPace ==
    \/ \E max_repeats \in 0 .. MAX_SYNC_REPEATS : sync_call_begin(max_repeats)
    \/ sync_call_pass
    \/ sync_call_check
    \/ sync_call_end
    \/ send_op

\* The passes of sync when the thread that runs it is scheduled, whatever
\* the other threads send
SpecPace ==
    /\ InitWith(RegConfigs)
    /\ [][NextPace]_vars
    /\ WF_vars(sync_call_pass \/ sync_call_check \/ sync_call_end)

\* C29: a sync that has begun returns, it runs at most max_repeats passes,
\* and it leaves its loop after the first pass that ends with both channels
\* below their flush points.
C29_SyncRunsAtMostMaxRepeatsPasses ==
    /\ [](sync_call.calls <= sync_call.max_repeats)
    /\ [][(sync_call.pc = "check"
              /\ sync_call.r_len < READ_LOG_FLUSH_POINT
              /\ sync_call.w_len < WRITE_LOG_FLUSH_POINT
              /\ sync_call'.pc # "check") => sync_call'.pc = "tail"]_vars
    /\ (sync_call.pc = "pass") ~> (sync_call.pc = "done")

\* C30: the pace sync returns is Fast exactly when, after its last pass, the
\* read channel or the write channel held at least its flush point of ops;
\* otherwise it is Normal when the write channel holds at most the low-water
\* mark of ops at the return, and None when it holds more.
C30_PaceFollowsChannelLengths ==
    [][(sync_call.pc = "tail" /\ sync_call'.pc = "done") =>
          sync_call'.pace =
              IF \/ sync_call.r_seen >= READ_LOG_FLUSH_POINT
                 \/ sync_call.w_seen >= WRITE_LOG_FLUSH_POINT
              THEN "Fast"
              ELSE IF sync_call.w_len <= WRITE_LOG_LOW_WATER_MARK THEN "Normal"
              ELSE "None"]_vars

\* A sync has returned None: its last pass left both channels below their
\* flush points and the write channel has filled above the low-water mark
\* since.
C30_Witness ==
    /\ sync_call.pc = "done"
    /\ sync_call.pace = "None"
    /\ sync_call.r_seen < READ_LOG_FLUSH_POINT
    /\ sync_call.w_seen < WRITE_LOG_FLUSH_POINT
    /\ sync_call.calls <= sync_call.max_repeats

\* -------------------------------------------- the cycles of maintenance
InCycle(c) == c.pc \in {"writes", "submit"}

\* C31: maintenance cycles never overlap.  weighted_size and the deques change
\* only in a step of the cycle; while a cycle is under way weighted_size is
\* the value the cycle read at its start (the debug assertion of sync), and
\* the only step that changes the cycle's record without ending it applies
\* the next WriteOp to the size the cycle has computed so far, so that no
\* update of weighted_size is lost, whatever gets, inserts and removes run
\* meanwhile.
C31_CyclesNeverOverlap ==
    [][/\ (weighted_size' # weighted_size \/ deqs' # deqs)
            => InCycle(sync) \/ InCycle(sync')
       /\ InCycle(sync) => weighted_size = sync.current_ws
       /\ weighted_size' # weighted_size => ~InCycle(sync')
       /\ (InCycle(sync) /\ InCycle(sync'))
            => \/ [sync' EXCEPT !.clean = sync.clean] = sync
               \/ /\ sync'.left = sync.left - 1
                  /\ sync'.ts = sync.ts
                  /\ sync'.current_ws = sync.current_ws
                  /\ sync'.ws = apply_write(MState, Head(write_op_ch), sync.ts).ws]_vars

\* a cycle that has changed the size while an insert added a WriteOp
C31_Witness ==
    /\ sync.pc = "writes"
    /\ sync.ws # sync.current_ws
    /\ Len(write_op_ch) > sync.left
    /\ weighted_size = sync.current_ws

\* ------------------------------------------------------ what the sweeper does
\* The entry is expired at time t by its own timestamps, in a way the sweeper
\* of this configuration tests.
ExpiredAt(e, t) ==
    \/ /\ is_write_order_queue_enabled
       /\ is_expired_entry_wo(cfg.ttl, valid_after, last_modified(cells, ents, e), t)
    \/ /\ cfg.tti # None \/ has_valid_after
       /\ is_expired_entry_ao(cfg.tti, valid_after, last_accessed(cells, ents, e), t)

\* The step is the tail of a maintenance cycle (the sweep).
SweepStep == sync.pc = "writes" /\ sync'.pc = "done"

\* C32: the sweep takes a key out of the hash map only if the entry stored
\* under the key when the sweep runs is expired by its own timestamps at the
\* time of the sweep; an entry whose timestamps are unset stays, whatever the
\* node at the front of a deque says.
C32_SweeperRemovesOnlyExpired ==
    [][SweepStep =>
         \A k \in Keys :
            (cache[k] # 0 /\ cache'[k] # cache[k])
               => /\ cache'[k] = 0
                  /\ ExpiredAt(cache[k], now)
                  /\ ~ /\ last_modified(cells, ents, cache[k]) = None
                       /\ last_accessed(cells, ents, cache[k]) = None]_vars

\* A sweep is about to run with, at the front of the write-order deque, the
\* expired node of an entry that was removed, while the key holds a later
\* entry with unset timestamps, which the sweep leaves in the map.
C32_Witness ==
    /\ sync.pc = "writes" /\ sync.left = 0
    /\ deqs.write_order # << >>
    /\ LET node == Head(deqs.write_order)
           k == ents[node].key
       IN  /\ is_expired_entry_wo(cfg.ttl, valid_after, last_modified(cells, ents, node), now)
           /\ cache[k] \notin {0, node}
           /\ last_modified(cells, ents, cache[k]) = None
           /\ evict(MState, EVICTION_BATCH_SIZE, now).cache[k] = cache[k]

\* The nodes of deque d whose key is absent from the hash map and which the
\* sweeper's test on the node finds expired at the clock's value
ExpiredOrphans(name) ==
    { n \in { deqs[name][i] : i \in 1 .. Len(deqs[name]) } :
        /\ cache[ents[n].key] = 0
        /\ IF name = "write_order"
           THEN is_expired_entry_wo(cfg.ttl, valid_after, last_modified(cells, ents, n), now)
           ELSE is_expired_entry_ao(cfg.tti, valid_after, last_accessed(cells, ents, n), now) }

\* The sweep of one deque, of n iterations
Sweep(name, n) ==
    IF name = "write_order" THEN remove_expired_wo(MState, n, now)
    ELSE remove_expired_ao(MState, name, n, now)

\* C33: when the front node of a deque is expired and its key is absent from
\* the hash map, one iteration of the sweeper moves the node to the MRU end of
\* its deque and changes nothing else (hash map, entries, weighted size, the
\* other deques); and when every node of the deque is such an orphan the sweep
\* stops after batch_size iterations, having rotated the deque batch_size
\* times and dropped no node.
C33_SweeperMovesOrphanToBack ==
    \A name \in {"write_order", "probation"} :
        LET d == deqs[name]
        IN  (d # << >> /\ Head(d) \in ExpiredOrphans(name))
               => /\ Sweep(name, 1) = [MState EXCEPT !.deqs[name] = Tail(d) \o << Head(d) >>]
                  /\ (\A i \in 1 .. Len(d) : d[i] \in ExpiredOrphans(name))
                       => Sweep(name, EVICTION_BATCH_SIZE) =
                             [MState EXCEPT !.deqs[name] =
                                [i \in 1 .. Len(d) |->
                                   d[((i - 1 + EVICTION_BATCH_SIZE) % Len(d)) + 1]]]

\* two expired orphans in the write-order deque, and nothing else
C33_Witness ==
    /\ Len(deqs.write_order) = 2
    /\ \A i \in 1 .. 2 : deqs.write_order[i] \in ExpiredOrphans("write_order")
    /\ Sweep("write_order", 1).deqs.write_order # deqs.write_order

\* ------------------------------------------- concurrent invalidate_all calls
\* An unbounded cache without expiration, one key and one entry, whose
\* clients call invalidate_all from NumCallers threads.
NextWipe ==
    \/ Client
    \/ Maintenance
    \/ \E t \in 1 .. NumCallers : invalidate_all_sample(t)
    \/ \E t \in 1 .. NumCallers : invalidate_all_store(t)
    \/ Tick

SpecWipe ==
    /\ InitWith({ [max_capacity |-> None, weigher |-> "default", ttl |-> None, tti |-> None,
                   inv |-> FALSE, keys |-> 1, entries |-> 1, preds |-> 0,
                   ticks |-> MaxTime, writers |-> MaxInflight] })
    /\ [][NextWipe]_vars

\* C34: valid_after never decreases, whatever the interleaving of the
\* invalidate_all calls, and an entry of the hash map which valid_after makes
\* invalid (a timestamp before valid_after) is still invalid after any step
\* that leaves the entry and its timestamps alone.
C34_ValidAfterNeverDecreases ==
    [][/\ valid_after' >= valid_after
       /\ \A k \in Keys :
            LET e == cache[k]
            IN  (/\ e # 0 /\ cache'[k] = e
                 /\ cells'[ents[e].cell] = cells[ents[e].cell]
                 /\ last_modified(cells, ents, e) # None
                 /\ last_modified(cells, ents, e) < valid_after)
                   => last_modified(cells, ents, e) < valid_after']_vars

\* ------------------------------------------------ two threads on one key
\* An unbounded cache without expiration and one key, on which two threads
\* write: a thread can update the hash map before the WriteOp of the other
\* is sent.
NumWriters == 2

SpecRace ==
    /\ InitWith({ [max_capacity |-> None, weigher |-> "default", ttl |-> None, tti |-> None,
                   inv |-> FALSE, keys |-> 1, entries |-> 2, preds |-> 0, ticks |-> 1,
                   writers |-> NumWriters] })
    /\ [][NextCap]_vars

\* C35: the WriteOps of one entry reach maintenance in the order in which
\* their operations took effect on the hash map: the Remove of an entry is
\* never in the write channel while the Upsert of the entry is still to be
\* sent or behind it in the channel; and when maintenance admits an entry, the
\* hash map holds the entry (or an update of it) or a Remove of it is still
\* pending, so that no entry is admitted after its Remove was applied.
C35_WriteOpsKeepMapOrder ==
    [][\A e \in 1 .. Len(ents) :
          LET U == [type |-> "Upsert", entry |-> e]
              R == [type |-> "Remove", entry |-> e]
          IN  /\ \A j \in 1 .. Len(write_op_ch) :
                    write_op_ch[j] = R
                       => /\ U \notin inflight
                          /\ \A i \in j + 1 .. Len(write_op_ch) : write_op_ch[i] # U
              /\ (ApplyingUpsert(e) /\ ~is_admitted(cells, ents, e)
                      /\ is_admitted(cells', ents', e))
                    => \/ /\ cache[ents[e].key] # 0
                          /\ ents[cache[ents[e].key]].cell = ents[e].cell
                       \/ \E op \in PendingOps :
                             op.type = "Remove" /\ ents[op.entry].cell = ents[e].cell]_vars

\* ----------------------------------------------- the Upsert of a stale entry
\* C36: when maintenance applies the Upsert of an entry which the hash map no
\* longer holds under its key (a newer entry is stored there) and the Upsert
\* ends in the oversize branch or in a rejection, the newer entry stays in
\* the hash map: those branches remove the candidate's own entry only.
C36_StaleUpsertKeepsNewerEntry ==
    [][\A e \in 1 .. Len(ents) :
          (/\ ApplyingUpsert(e)
           /\ sync'.last \in {"oversize", "admit"}
           /\ ~is_admitted(cells', ents', e)
           /\ cache[ents[e].key] \notin {0, e})
             => cache'[ents[e].key] = cache[ents[e].key]]_vars

\* ------------------------------------------------- the nodes admit collects
\* C37: the access-order deques hold at most one node per key; hence, when
\* handle_upsert calls admit, the victim nodes and the skipped nodes it gets
\* belong to pairwise distinct keys, so that the handle_remove of one victim
\* (which unlinks the node of the entry the map holds under the victim's key)
\* never unlinks a node handle_upsert uses afterwards.
C37_OneAccessOrderNodePerKey ==
    /\ \A i, j \in 1 .. Len(AoNodes) :
          ents[AoNodes[i]].key = ents[AoNodes[j]].key => i = j
    /\ sync.pc = "writes" /\ sync.left > 0 /\ Head(write_op_ch).type = "Upsert"
         /\ upsert_branch(MState, Head(write_op_ch).entry) = "admit"
       => LET e == Head(write_op_ch).entry
              W == admit_walk(MState, Candidate(e), 1, NoVictims)
              nodes == W.victim_nodes \o W.skipped_nodes
          IN  \A i, j \in 1 .. Len(nodes) :
                 ents[nodes[i]].key = ents[nodes[j]].key => i = j

InitWeigh ==
    \E a \in 1 .. MaxWeight, c \in 0 .. MaxWeight, f \in 0 .. MaxFreq :
    \E m \in a .. MaxWeight :
        /\ cfg = [max_capacity |-> m, weigher |-> "value", ttl |-> None, tti |-> None,
                  inv |-> FALSE, keys |-> 2, entries |-> 2, preds |-> 0, ticks |-> 1,
                  writers |-> MaxInflight]
        /\ now = 1
        /\ cache = [k \in Keys |-> IF k <= 2 THEN k ELSE 0]
        /\ ents = << [key |-> 1, value |-> a, cell |-> 1, ao |-> 1, wo |-> 0, upd |-> FALSE],
                     [key |-> 2, value |-> c, cell |-> 2, ao |-> 0, wo |-> 0, upd |-> FALSE] >>
        /\ cells = [i \in EntryIds |->
                      IF i = 1 THEN [la |-> 1, lm |-> 1, adm |-> TRUE] ELSE NoCell]
        /\ deqs = [window |-> << >>, probation |-> << 1 >>, protected |-> << >>,
                   write_order |-> << >>]
        /\ freq = [h \in Keys |-> IF h = 2 THEN f ELSE 0]
        /\ read_op_ch = << >>
        /\ write_op_ch = << [type |-> "Upsert", entry |-> 2] >>
        /\ inflight = {}
        /\ weighted_size = a
        /\ valid_after = 0
        /\ sync = [pc |-> "writes", current_ws |-> a, ws |-> a, left |-> 1, ts |-> 1,
                   last |-> "none", clean |-> FALSE]
        /\ invalidator = NewInvalidator
        /\ insert_call = NoInsertCall
        /\ sync_call = NoSyncCall
        /\ invalidate_all_now = NoCalls
        /\ lastGet = NoGet
        /\ hist = [k \in Keys |-> NoHist]

SpecWeigh == InitWeigh /\ [][NextAdmit]_vars

\* C39: the capacity test is exact for every weight: when handle_upsert finds
\* room for a candidate, the size plus the candidate's weight, as numbers, is
\* at most max_capacity; an entry heavier than max_capacity is never
\* admitted; and the size the cycle computes stays a u64.
C39_CapacityTestIsExact ==
    [][\A e \in 1 .. Len(ents) :
          ApplyingUpsert(e) =>
             LET w == weigh(ents[e].key, ents[e].value)
             IN  /\ sync'.last = "room" => sync.ws + w <= cfg.max_capacity
                 /\ (w > cfg.max_capacity /\ ~is_admitted(cells, ents, e))
                       => ~is_admitted(cells', ents', e)
                 /\ sync'.ws \in 0 .. MaxWeight]_vars

====
